---- MODULE Spec2Model ----
(***************************************************************************)
(* Clothing-repair ordering chatbot (Fikse search prototype).              *)
(* The hybrid agent of Fikse_Agent/Model_2/agent_hybrid.py: intent         *)
(* detection over the user's text and the per-session conversation state   *)
(* machine that builds and confirms an order.                              *)
(*                                                                         *)
(* A text is a sequence of one-character strings, so that the regular      *)
(* expressions and the substring tests of the code are computed on the     *)
(* characters themselves.  An Optional value is None (<<>>) or Some(x)     *)
(* (<<x>>).                                                                *)
(***************************************************************************)
EXTENDS Integers, Sequences, FiniteSets, TLC

None == <<>>
Some(x) == <<x>>

\* Python truthiness of an Optional[str] (None and "" are falsy) and of an
\* Optional number (None and 0 are falsy).
TruthyStr(o) == o # None /\ o[1] # <<>>
TruthyNum(o) == o # None /\ o[1] # 0

----------------------------------------------------------------------------
\* Characters and the str methods the code uses.

UpperCase ==
    <<"A", "B", "C", "D", "E", "F", "G", "H", "I", "J", "K", "L", "M",
      "N", "O", "P", "Q", "R", "S", "T", "U", "V", "W", "X", "Y", "Z">>

LowerCase ==
    <<"a", "b", "c", "d", "e", "f", "g", "h", "i", "j", "k", "l", "m",
      "n", "o", "p", "q", "r", "s", "t", "u", "v", "w", "x", "y", "z">>

Digits == <<"0", "1", "2", "3", "4", "5", "6", "7", "8", "9">>

IsUpper(c) == \E i \in DOMAIN UpperCase : UpperCase[i] = c
IsLower(c) == \E i \in DOMAIN LowerCase : LowerCase[i] = c
IsDigit(c) == \E i \in DOMAIN Digits : Digits[i] = c
IsSpace(c) == c = " "

\* \w of the re module: letters, digits and the underscore.
IsWordChar(c) == IsUpper(c) \/ IsLower(c) \/ IsDigit(c) \/ c = "_"

DigitValue(c) == (CHOOSE i \in DOMAIN Digits : Digits[i] = c) - 1

lower_char(c) ==
    IF IsUpper(c) THEN LowerCase[CHOOSE i \in DOMAIN UpperCase : UpperCase[i] = c] ELSE c

\* str.lower()
lower(text) == [i \in 1..Len(text) |-> lower_char(text[i])]

\* str.strip()
strip(text) ==
    LET keep == {i \in 1..Len(text) : ~IsSpace(text[i])}
    IN  IF keep = {} THEN <<>>
        ELSE SubSeq(text,
                    CHOOSE i \in keep : \A j \in keep : i <= j,
                    CHOOSE i \in keep : \A j \in keep : j <= i)

\* `w in text`
Contains(text, w) ==
    \E i \in 1..(Len(text) - Len(w) + 1) : SubSeq(text, i, i + Len(w) - 1) = w

\* \b between positions j and j+1 (0 and Len(text) are the ends of the text).
WordBoundary(text, j) ==
    LET isw(k) == k \in 1..Len(text) /\ IsWordChar(text[k])
    IN  isw(j) # isw(j + 1)

\* re.search(r'\b(w)\b', text) for one alternative w
SearchWord(text, w) ==
    \E i \in 1..(Len(text) - Len(w) + 1) :
        /\ SubSeq(text, i, i + Len(w) - 1) = w
        /\ WordBoundary(text, i - 1)
        /\ WordBoundary(text, i + Len(w) - 1)

\* re.search(r'\b(w1|w2|...)\b', text)
SearchAnyWord(text, words) == \E k \in DOMAIN words : SearchWord(text, words[k])

\* re.match(r"^[0-9]+$", text)
MatchNumber(text) == Len(text) > 0 /\ \A i \in 1..Len(text) : IsDigit(text[i])

RECURSIVE DecimalValue(_)
DecimalValue(ds) ==
    IF ds = <<>> THEN 0
    ELSE 10 * DecimalValue(SubSeq(ds, 1, Len(ds) - 1)) + DigitValue(ds[Len(ds)])

\* int(text): surrounding whitespace and one sign are accepted; anything else is a ValueError.
IntBody(text) ==
    LET s == strip(text)
    IN  IF Len(s) > 0 /\ s[1] \in {"+", "-"} THEN Tail(s) ELSE s

int_ok(text) == MatchNumber(IntBody(text))

int(text) ==
    LET s == strip(text)
    IN  IF Len(s) > 0 /\ s[1] = "-" THEN 0 - DecimalValue(IntBody(text))
        ELSE DecimalValue(IntBody(text))

----------------------------------------------------------------------------
\* Intent detection: detect_intent_and_context and ai_classify_intent.

garments ==
    <<<<"d", "r", "e", "s", "s">>,
      <<"s", "h", "i", "r", "t">>,
      <<"p", "a", "n", "t", "s">>,
      <<"j", "a", "c", "k", "e", "t">>,
      <<"c", "o", "a", "t">>,
      <<"b", "l", "o", "u", "s", "e">>,
      <<"s", "k", "i", "r", "t">>,
      <<"s", "u", "i", "t">>,
      <<"j", "e", "a", "n", "s">>,
      <<"t", "r", "o", "u", "s", "e", "r", "s">>,
      <<"s", "w", "e", "a", "t", "e", "r">>,
      <<"c", "a", "r", "d", "i", "g", "a", "n">>,
      <<"b", "l", "a", "z", "e", "r">>,
      <<"s", "h", "o", "r", "t", "s">>,
      <<"t", "o", "p">>,
      <<"o", "u", "t", "f", "i", "t">>,
      <<"c", "l", "o", "t", "h", "i", "n", "g">>,
      <<"g", "a", "r", "m", "e", "n", "t">>,
      <<"c", "l", "o", "t", "h", "e", "s">>>>

fabrics ==
    <<<<"s", "i", "l", "k">>,
      <<"c", "o", "t", "t", "o", "n">>,
      <<"w", "o", "o", "l">>,
      <<"l", "i", "n", "e", "n">>,
      <<"p", "o", "l", "y", "e", "s", "t", "e", "r">>,
      <<"d", "e", "n", "i", "m">>,
      <<"l", "e", "a", "t", "h", "e", "r">>,
      <<"c", "a", "s", "h", "m", "e", "r", "e">>,
      <<"s", "a", "t", "i", "n">>,
      <<"c", "h", "i", "f", "f", "o", "n">>,
      <<"v", "e", "l", "v", "e", "t">>,
      <<"c", "o", "r", "d", "u", "r", "o", "y">>>>

damage_types ==
    <<<<"t", "e", "a", "r">>,
      <<"h", "o", "l", "e">>,
      <<"s", "t", "a", "i", "n">>,
      <<"z", "i", "p", "p", "e", "r">>,
      <<"b", "u", "t", "t", "o", "n">>,
      <<"s", "e", "a", "m">>,
      <<"h", "e", "m">>,
      <<"r", "i", "p">>,
      <<"w", "o", "r", "n">>,
      <<"f", "a", "d", "e", "d">>,
      <<"s", "h", "r", "u", "n", "k">>,
      <<"s", "t", "r", "e", "t", "c", "h", "e", "d">>,
      <<"l", "o", "o", "s", "e">>,
      <<"t", "i", "g", "h", "t">>,
      <<"b", "r", "o", "k", "e", "n">>,
      <<"d", "a", "m", "a", "g", "e", "d">>,
      <<"r", "u", "i", "n", "e", "d">>,
      <<"f", "a", "l", "l", "i", "n", "g", " ", "a", "p", "a", "r", "t">>,
      <<"n", "e", "e", "d", "s", " ", "f", "i", "x", "i", "n", "g">>>>

confirmation_terms ==
    <<<<"y", "e", "s">>,
      <<"c", "o", "n", "f", "i", "r", "m">>,
      <<"o", "k", "a", "y">>,
      <<"o", "k">>>>

cancel_terms ==
    <<<<"n", "o">>,
      <<"c", "a", "n", "c", "e", "l">>,
      <<"n", "e", "v", "e", "r", "m", "i", "n", "d">>,
      <<"b", "a", "c", "k">>>>

greeting_terms ==
    <<<<"h", "i">>,
      <<"h", "e", "l", "l", "o">>,
      <<"h", "e", "y">>,
      <<"s", "t", "a", "r", "t">>,
      <<"b", "e", "g", "i", "n">>>>

looks_good == <<"l", "o", "o", "k", "s", " ", "g", "o", "o", "d">>

\* The first keyword of the list, in list order, that occurs in the text.
FirstFound(words, text) ==
    LET hits == {k \in DOMAIN words : Contains(text, words[k])}
    IN  IF hits = {} THEN None
        ELSE Some(words[CHOOSE k \in hits : \A j \in hits : k <= j])

extract_context(text) ==
    LET text_lower == lower(text)
        garment == FirstFound(garments, text_lower)
        fabric == FirstFound(fabrics, text_lower)
        damage == FirstFound(damage_types, text_lower)
    IN  [garment_type |->
             IF fabric # None /\ TruthyStr(garment)
             THEN Some(fabric[1] \o <<" ">> \o garment[1])
             ELSE garment,
         damage_type |-> damage,
         fabric_type |-> fabric]

HasContext(context) ==
    TruthyStr(context.garment_type) \/ TruthyStr(context.fabric_type) \/ TruthyStr(context.damage_type)

\* The reply of the generative model: the call raises, or it answers with a label.
valid_intents == {"repair_request", "greeting", "service_selection", "confirmation", "unknown"}

AIFailure == [ok |-> FALSE, reply |-> ""]
AIReply(label) == [ok |-> TRUE, reply |-> label]

\* Mutant of ai_classify_intent: the reply is not validated.
ai_classify_intent_unvalidated(text, context, ai) ==
    IF ai.ok
    THEN [intent |-> ai.reply, context |-> context]
    ELSE IF HasContext(context)
         THEN [intent |-> "repair_request", context |-> context]
         ELSE [intent |-> "unknown", context |-> context]

ai_classify_intent(text, context, ai) ==
    IF ai.ok /\ ai.reply \in valid_intents
    THEN [intent |-> ai.reply, context |-> context]
    ELSE IF HasContext(context)
         THEN [intent |-> "repair_request", context |-> context]
         ELSE [intent |-> "unknown", context |-> context]

IsNumberPattern(text) == MatchNumber(strip(text))
IsConfirmationPattern(text) ==
    SearchAnyWord(lower(text), confirmation_terms) \/ Contains(lower(text), looks_good)
IsCancelPattern(text) == SearchAnyWord(lower(text), cancel_terms)
IsGreetingPattern(text) == SearchAnyWord(lower(text), greeting_terms)

\* True when no keyword rule decides and the generative model is asked.
NeedsAI(text) ==
    /\ ~IsNumberPattern(text)
    /\ ~IsConfirmationPattern(text)
    /\ ~IsCancelPattern(text)
    /\ ~IsGreetingPattern(text)
    /\ ~HasContext(extract_context(text))

\* Mutant of detect_intent_and_context: the cancel rule is tried before the
\* confirmation rule.
detect_cancel_first(text, ai) ==
    LET context == extract_context(text)
    IN  IF IsNumberPattern(text) THEN [intent |-> "service_selection", context |-> context]
        ELSE IF IsCancelPattern(text) THEN [intent |-> "cancel", context |-> context]
        ELSE IF IsConfirmationPattern(text) THEN [intent |-> "confirmation", context |-> context]
        ELSE IF IsGreetingPattern(text) THEN [intent |-> "greeting", context |-> context]
        ELSE IF HasContext(context) THEN [intent |-> "repair_request", context |-> context]
        ELSE ai_classify_intent(text, context, ai)

detect_intent_and_context(text, ai) ==
    LET context == extract_context(text)
    IN  IF IsNumberPattern(text) THEN [intent |-> "service_selection", context |-> context]
        ELSE IF IsConfirmationPattern(text) THEN [intent |-> "confirmation", context |-> context]
        ELSE IF IsCancelPattern(text) THEN [intent |-> "cancel", context |-> context]
        ELSE IF IsGreetingPattern(text) THEN [intent |-> "greeting", context |-> context]
        ELSE IF HasContext(context) THEN [intent |-> "repair_request", context |-> context]
        ELSE ai_classify_intent(text, context, ai)

----------------------------------------------------------------------------
\* The search service (Fikse_Agent/Model_2/app.py): spelling correction,
\* price extraction, nearest-neighbour retrieval, keyword classification of
\* the candidates, assembly of the response and the price filter.

\* seq[:n]
Take(seq, n) == SubSeq(seq, 1, IF Len(seq) < n THEN Len(seq) ELSE n)

\* str.split(): the maximal runs of non-space characters, left to right
RECURSIVE split(_)
split(text) ==
    LET s == strip(text)
    IN  IF s = <<>> THEN <<>>
        ELSE LET spaces == {i \in 1..Len(s) : IsSpace(s[i])}
             IN  IF spaces = {} THEN <<s>>
                 ELSE LET first == CHOOSE i \in spaces : \A j \in spaces : i <= j
                      IN  <<SubSeq(s, 1, first - 1)>> \o split(SubSeq(s, first + 1, Len(s)))

\* Number of nearest neighbours asked of the index, size of a response and
\* the distance from the target price that still matches.
TopK == 100
ResultLimit == 10
PriceTolerance == 50

\* Number of rows of the catalog.
CatalogSize == 12

\* The kinds of service the catalog offers.  The precomputed dataset holds
\* lemmatized, lower-case text.
ServiceKinds ==
    <<[Service |-> <<"z", "i", "p", "p", "e", "r">>, Description |-> <<"n", "e", "w", " ", "z", "i", "p", "p", "e", "r">>,
       Garment |-> <<"j", "a", "c", "k", "e", "t">>, Repairer |-> <<"t", "a", "i", "l", "o", "r">>],
      [Service |-> <<"r", "e", "p", "l", "a", "c", "e", " ", "z", "i", "p", "p", "e", "r">>, Description |-> <<"s", "w", "a", "p", " ", "t", "h", "e", " ", "z", "i", "p">>,
       Garment |-> <<"j", "e", "a", "n", "s">>, Repairer |-> <<"t", "a", "i", "l", "o", "r">>],
      [Service |-> <<"f", "i", "x", " ", "c", "l", "o", "s", "u", "r", "e">>, Description |-> <<"r", "e", "p", "a", "i", "r", " ", "z", "i", "p", "p", "e", "r">>,
       Garment |-> <<"j", "a", "c", "k", "e", "t">>, Repairer |-> <<"t", "a", "i", "l", "o", "r">>],
      [Service |-> <<"h", "e", "m", "m", "i", "n", "g">>, Description |-> <<"s", "h", "o", "r", "t", "e", "n", " ", "j", "a", "c", "k", "e", "t", " ", "h", "e", "m">>,
       Garment |-> <<"j", "a", "c", "k", "e", "t">>, Repairer |-> <<"s", "e", "a", "m", "s", "t", "r", "e", "s", "s">>],
      [Service |-> <<"p", "a", "t", "c", "h", " ", "h", "o", "l", "e">>, Description |-> <<"c", "o", "v", "e", "r", " ", "a", " ", "h", "o", "l", "e">>,
       Garment |-> <<"j", "e", "a", "n", "s">>, Repairer |-> <<"c", "o", "b", "b", "l", "e", "r">>]>>

\* Row i of the catalog.  The rows differ in their price; one row has a price
\* that float() does not accept (None).
CatalogRow(i) ==
    LET kind == ServiceKinds[((i - 1) % Len(ServiceKinds)) + 1]
    IN  [Service |-> kind.Service, Description |-> kind.Description,
         Price |-> IF i = Len(ServiceKinds) THEN None ELSE Some(75 + 25 * i),
         Garment |-> kind.Garment, Repairer |-> kind.Repairer,
         Hours |-> 1]

Catalog == [i \in 1..CatalogSize |-> CatalogRow(i)]

\* load_and_index_dataset(): the dataset with its index
load_and_index_dataset == Some(Catalog)

\* The queries that are served.
Queries ==
    {<<"z", "i", "p", "p", "e", "r">>, <<"Z", "i", "p", "p", "e", "r", " ", "1", "5", "0">>, <<"j", "a", "c", "k", "e", "t", " ", "z", "i", "p", "p", "e", "r">>, <<"s", "h", "o", "r", "t", "e", "n", " ", "j", "a", "c", "k", "e", "t">>,
     <<"z", "i", "p", "p", "e", "r", " ", "0", "0">>, <<"b", "u", "t", "t", "o", "n">>, <<"z", "i", "p", "e", "r">>, <<"m", "y", " ", "z", "i", "p", "p", "e", "r", " ", "3", "0", "0">>}

\* sym_spell.lookup_compound(text): no suggestion, or one whose first term is
\* the text with its misspelt word replaced.
Respell(text) == IF text = <<"z", "i", "p", "e", "r">> THEN <<"z", "i", "p", "p", "e", "r">> ELSE text
Suggestions(text) == {None, Some(Respell(text))}

correct_query(text, suggestion) == IF suggestion # None THEN suggestion[1] ELSE text

\* re.search(r"\b(\d{2,5})\b", text): the leftmost start, and there the
\* longest run of 2 to 5 digits that ends on a word boundary.
PriceMatches(text) ==
    {m \in (1..Len(text)) \X (2..5) :
        /\ m[1] + m[2] - 1 <= Len(text)
        /\ \A k \in m[1]..(m[1] + m[2] - 1) : IsDigit(text[k])
        /\ WordBoundary(text, m[1] - 1)
        /\ WordBoundary(text, m[1] + m[2] - 1)}

extract_price(text) ==
    LET ms == PriceMatches(text)
    IN  IF ms = {} THEN None
        ELSE LET m == CHOOSE m \in ms :
                        \A o \in ms : m[1] < o[1] \/ (m[1] = o[1] /\ m[2] >= o[2])
             IN  Some(DecimalValue(SubSeq(text, m[1], m[1] + m[2] - 1)))

\* [term.strip() for term in corrected_query.lower().split() if len(term.strip()) > 2]
search_terms_of(corrected_query) ==
    LET terms == split(lower(corrected_query))
        long(term) == Len(strip(term)) > 2
        stripped == [k \in 1..Len(terms) |-> strip(terms[k])]
    IN  SelectSeq(stripped, long)

\* The index answers with the nearest rows first.  Which rows are near is
\* the embedding model's matter: the catalog taken in rotation from any row,
\* with distances that are all equal, all different, or equal in pairs.
ScoreProfiles == {"ties", "rising", "pairs"}
Retrievals == (0..(CatalogSize - 1)) \X ScoreProfiles

get_nearest_examples(data, retrieval, k) ==
    LET n == Len(data)
        ranked == [i \in 1..n |-> data[((i - 1 + retrieval[1]) % n) + 1]]
        samples == Take(ranked, k)
        score(i) == CASE retrieval[2] = "ties" -> 1
                      [] retrieval[2] = "rising" -> i
                      [] retrieval[2] = "pairs" -> (i + 1) \div 2
    IN  [samples |-> samples, scores |-> [i \in 1..Len(samples) |-> score(i)]]

\* The entries that the loop over the search terms appends for one row, in
\* the order it appends them: an exact or a partial service match ends the
\* loop, a description or a general match does not.
RECURSIVE row_matches(_, _, _)
row_matches(row, score, terms) ==
    IF terms = <<>> THEN <<>>
    ELSE LET term == Head(terms)
             service_lower == lower(row.Service)
             description_lower == lower(row.Description)
             garment_lower == lower(row.Garment)
             repairer_lower == lower(row.Repairer)
             entry(group, prefix) ==
                 [group |-> group, row |-> row, score |-> score,
                  match_detail |-> <<prefix, term>>]
         IN  IF term = service_lower
             THEN <<entry("exact_service", "exact_service:")>>
             ELSE IF Contains(service_lower, term)
             THEN <<entry("partial_service", "partial_service:")>>
             ELSE IF Contains(description_lower, term)
             THEN <<entry("description", "description:")>>
                  \o row_matches(row, score, Tail(terms))
             ELSE IF Contains(garment_lower, term) \/ Contains(repairer_lower, term)
             THEN <<entry("general", "general:")>>
                  \o row_matches(row, score, Tail(terms))
             ELSE row_matches(row, score, Tail(terms))

\* What one pass of the loop over the candidates appends for candidate i.
row_entries(row, score, terms) ==
    LET matches == row_matches(row, score, terms)
    IN  IF matches = <<>>
        THEN <<[group |-> "semantic", row |-> row, score |-> score,
                match_detail |-> <<"semantic_only">>]>>
        ELSE matches

\* All entries appended by the loop over the candidates, in order.
RECURSIVE appended(_, _, _, _)
appended(samples, scores, terms, i) ==
    IF i > Len(samples) THEN <<>>
    ELSE row_entries(samples[i], scores[i], terms) \o appended(samples, scores, terms, i + 1)

\* The five lists after the loop.
match_group(entries, group) ==
    LET in_group(e) == e.group = group
    IN  SelectSeq(entries, in_group)

\* The groups with the semantic one first.
all_match_groups_semantic_first(entries) ==
    <<[matches |-> match_group(entries, "semantic"), match_type |-> "semantic"],
      [matches |-> match_group(entries, "exact_service"), match_type |-> "exact_service"],
      [matches |-> match_group(entries, "partial_service"), match_type |-> "partial_service"],
      [matches |-> match_group(entries, "description"), match_type |-> "description"],
      [matches |-> match_group(entries, "general"), match_type |-> "general"]>>

all_match_groups(entries) ==
    <<[matches |-> match_group(entries, "exact_service"), match_type |-> "exact_service"],
      [matches |-> match_group(entries, "partial_service"), match_type |-> "partial_service"],
      [matches |-> match_group(entries, "description"), match_type |-> "description"],
      [matches |-> match_group(entries, "general"), match_type |-> "general"],
      [matches |-> match_group(entries, "semantic"), match_type |-> "semantic"]>>

\* A group left in the order of retrieval.
sort_by_score_unsorted(group) == group

\* list.sort(key=score, reverse=True): descending, equal scores keep their order
RECURSIVE sort_by_score(_)
sort_by_score(group) ==
    IF group = <<>> THEN <<>>
    ELSE LET best == CHOOSE i \in DOMAIN group :
                        /\ \A j \in DOMAIN group : group[j].score <= group[i].score
                        /\ \A j \in 1..(i - 1) : group[j].score < group[i].score
             rest == [j \in 1..(Len(group) - 1) |->
                         IF j < best THEN group[j] ELSE group[j + 1]]
         IN  <<group[best]>> \o sort_by_score(rest)

\* A result whose match detail does not name the term.
row_dict_no_detail(entry, match_type, search_terms) ==
    [Service |-> entry.row.Service, Description |-> entry.row.Description,
     Price |-> entry.row.Price, Garment |-> entry.row.Garment,
     Repairer |-> entry.row.Repairer, Hours |-> entry.row.Hours,
     similarity_score |-> entry.score,
     match_type |-> match_type,
     match_detail |-> <<"semantic_only">>,
     search_terms |-> search_terms]

row_dict(entry, match_type, search_terms) ==
    [Service |-> entry.row.Service, Description |-> entry.row.Description,
     Price |-> entry.row.Price, Garment |-> entry.row.Garment,
     Repairer |-> entry.row.Repairer, Hours |-> entry.row.Hours,
     similarity_score |-> entry.score,
     match_type |-> match_type,
     match_detail |-> entry.match_detail,
     search_terms |-> search_terms]

\* The loop over the groups: each group sorted, then as many of it as there
\* are slots left.
RECURSIVE add_groups(_, _, _)
add_groups(groups, final_results, search_terms) ==
    IF groups = <<>> \/ Len(final_results) >= ResultLimit THEN final_results
    ELSE LET sorted == sort_by_score(Head(groups).matches)
             remaining_slots == ResultLimit - Len(final_results)
             chosen == Take(sorted, remaining_slots)
         IN  add_groups(Tail(groups),
                        final_results \o
                          [k \in 1..Len(chosen) |->
                              row_dict(chosen[k], Head(groups).match_type, search_terms)],
                        search_terms)

\* abs(float(result["Price"]) - target_price) <= 50, False when float() raises
is_price_match(result, target_price) ==
    /\ result.Price # None
    /\ LET d == result.Price[1] - target_price
       IN  (IF d < 0 THEN 0 - d ELSE d) <= PriceTolerance

price_filter(final_results, target_price) ==
    LET keep(r) == is_price_match(r, target_price[1])
    IN  IF TruthyNum(target_price) THEN SelectSeq(final_results, keep)
        ELSE final_results

\* The reply while the dataset is not loaded.
NotReady == [kind |-> "not_ready", rows |-> <<>>]

\* A reply that is a JSON list
SearchOk(rows) == [kind |-> "ok", rows |-> rows]

\* token.lemma_ of spaCy for the words of the queries: the base form of a word
LemmaOf(word) ==
    CASE word = <<"z", "i", "p", "p", "e", "r", "s">> -> <<"z", "i", "p", "p", "e", "r">>
      [] word = <<"h", "e", "m", "m", "i", "n", "g">> -> <<"h", "e", "m">>
      [] OTHER -> word

RECURSIVE JoinWords(_)
JoinWords(words) ==
    IF words = <<>> THEN <<>>
    ELSE IF Len(words) = 1 THEN words[1]
    ELSE words[1] \o <<" ">> \o JoinWords(Tail(words))

\* " ".join([token.lemma_ for token in nlp(text.lower())])
lemmatize_and_lower(text) ==
    LET words == split(lower(text))
    IN  JoinWords([k \in 1..Len(words) |-> LemmaOf(words[k])])

\* The stage of the request that raises: none, sym_spell.lookup_compound, or
\* the spaCy pipeline.
StageFailures == {"none", "spell", "lemmatize"}

\* The reply of the web framework when the handler raises: status 500
ServerError == [kind |-> "http_error", rows |-> <<>>]

\* The locals of search_api before any of them is computed.
NoLocals(q) ==
    [q |-> q, ready |-> FALSE, failure |-> "none", raised |-> FALSE,
     corrected_query |-> <<>>, normalized_query |-> <<>>, target_price |-> None,
     search_terms |-> <<>>, samples |-> <<>>, scores |-> <<>>, entries |-> <<>>,
     assembled |-> <<>>, reply |-> NotReady]

\* The price filter applied to the entries before the list is assembled.
search_api_filter_first(data, q, suggestion, retrieval, failure) ==
    IF data = None THEN NoLocals(q)
    ELSE IF failure # "none"
    THEN [NoLocals(q) EXCEPT !.ready = TRUE, !.failure = failure, !.raised = TRUE,
                             !.reply = ServerError]
    ELSE LET corrected_query == correct_query(q, suggestion)
             target_price == extract_price(corrected_query)
             nearest == get_nearest_examples(data[1], retrieval, TopK)
             search_terms == search_terms_of(corrected_query)
             entries == appended(nearest.samples, nearest.scores, search_terms, 1)
             fits(e) == is_price_match(e.row, target_price[1])
             kept == IF TruthyNum(target_price) THEN SelectSeq(entries, fits) ELSE entries
             assembled == add_groups(all_match_groups(kept), <<>>, search_terms)
         IN  [q |-> q, ready |-> TRUE, failure |-> failure, raised |-> FALSE,
              corrected_query |-> corrected_query,
              normalized_query |-> lemmatize_and_lower(corrected_query),
              target_price |-> target_price, search_terms |-> search_terms,
              samples |-> nearest.samples, scores |-> nearest.scores,
              entries |-> entries, assembled |-> assembled,
              reply |-> SearchOk(Take(assembled, ResultLimit))]

\* search_api(q): the reply with the values of the locals it was made from.
\* correct_query and lemmatize_and_lower are called outside any try: when one
\* of them raises, the handler raises.
search_api(data, q, suggestion, retrieval, failure) ==
    IF data = None THEN NoLocals(q)
    ELSE IF failure = "spell"
    THEN [NoLocals(q) EXCEPT !.ready = TRUE, !.failure = failure, !.raised = TRUE,
                             !.reply = ServerError]
    ELSE IF failure = "lemmatize"
    THEN [NoLocals(q) EXCEPT !.ready = TRUE, !.failure = failure, !.raised = TRUE,
                             !.corrected_query = correct_query(q, suggestion),
                             !.reply = ServerError]
    ELSE LET corrected_query == correct_query(q, suggestion)
             target_price == extract_price(corrected_query)
             nearest == get_nearest_examples(data[1], retrieval, TopK)
             search_terms == search_terms_of(corrected_query)
             entries == appended(nearest.samples, nearest.scores, search_terms, 1)
             assembled == add_groups(all_match_groups(entries), <<>>, search_terms)
             final_results == price_filter(assembled, target_price)
         IN  [q |-> q, ready |-> TRUE, failure |-> failure, raised |-> FALSE,
              corrected_query |-> corrected_query,
              normalized_query |-> lemmatize_and_lower(corrected_query),
              target_price |-> target_price, search_terms |-> search_terms,
              samples |-> nearest.samples, scores |-> nearest.scores,
              entries |-> entries, assembled |-> assembled,
              reply |-> SearchOk(Take(final_results, ResultLimit))]

----------------------------------------------------------------------------
\* Service functions: the search service's reply and query_fikse_search.

MaxServices == 10
MaxSuggestions == 5

\* Largest reply of the search service that is tried.
MaxResults == 11

\* dict.get(key, default) on a JSON object whose key may be missing
Get(field, default) == IF field = None THEN default ELSE field[1]

\* Rows as the search service returns them (JSON objects; a key may be missing).
SearchRows ==
    <<[Service |-> Some("Fix tear"), Description |-> Some("Sew a small tear"),
       Price |-> Some(150), Garment |-> Some("Dress"), Repairer |-> Some("Tailor"),
       Hours |-> Some(1)],
      [Service |-> Some("Replace zipper"), Description |-> Some("New zipper"),
       Price |-> Some(300), Garment |-> Some("Jacket"), Repairer |-> Some("Tailor"),
       Hours |-> None],
      [Service |-> None, Description |-> None,
       Price |-> None, Garment |-> None, Repairer |-> None,
       Hours |-> Some(2)]>>

\* A reply of n rows, the rows taken in rotation starting after row `offset`.
ResultRows(n, offset) ==
    [i \in 1..n |-> SearchRows[((i - 1 + offset) % Len(SearchRows)) + 1]]

\* requests.get raises (no connection)
SearchError == [kind |-> "error", rows |-> <<>>]

\* raise_for_status() raises on a 4xx or 5xx reply
SearchHttpError == [kind |-> "http_error", rows |-> <<>>]

\* A JSON list with an element that no ServiceItem can be made of (not an
\* object, or a Price that float() rejects); rows are the elements before it.
SearchMalformed(rows) == [kind |-> "malformed", rows |-> rows]

\* What requests.get(...).json() gives the agent: a failure, a list of rows,
\* or the object that search_api returns while its dataset is not loaded.
SearchOutcomes ==
    {SearchError, SearchHttpError, SearchMalformed(ResultRows(2, 0))}
    \cup {search_api(None, q, None, <<0, "ties">>, "none").reply : q \in Queries}
    \cup {SearchOk(ResultRows(n, 0)) : n \in {0, 1, 3, MaxSuggestions + 1, MaxResults}}
    \cup {SearchOk(ResultRows(3, 1))}

service_item(i, result) ==
    [id |-> <<"service_", i>>,
     service |-> Get(result.Service, "Unknown Service"),
     description |-> Get(result.Description, ""),
     price |-> Get(result.Price, 0),
     garment_type |-> Get(result.Garment, ""),
     repairer_type |-> Get(result.Repairer, ""),
     estimated_hours |-> result.Hours]

\* The object of a not-ready reply taken for a list of one row without fields.
query_fikse_search_unguarded(outcome) ==
    IF outcome.kind = "error" THEN <<>>
    ELSE LET rows == IF outcome.kind = "ok" THEN outcome.rows
                     ELSE <<[Service |-> None, Description |-> None, Price |-> None,
                             Garment |-> None, Repairer |-> None, Hours |-> None]>>
             results == Take(rows, MaxServices)
         IN  [i \in 1..Len(results) |-> service_item(i, results[i])]

\* The services made before the exception are returned.
query_fikse_search_partial(outcome) ==
    IF outcome.kind \in {"ok", "malformed"}
    THEN LET results == Take(outcome.rows, MaxServices)
         IN  [i \in 1..Len(results) |-> service_item(i, results[i])]
    ELSE <<>>

\* results[:10] raises on anything but a list, result.get and float() on a
\* malformed element; every exception gives [].
query_fikse_search(outcome) ==
    IF outcome.kind = "ok"
    THEN LET results == Take(outcome.rows, MaxServices)
         IN  [i \in 1..Len(results) |-> service_item(i, results[i])]
    ELSE <<>>

----------------------------------------------------------------------------
\* Order summaries.

RECURSIVE SumPrice(_)
SumPrice(services) ==
    IF services = <<>> THEN 0
    ELSE services[1].price + SumPrice(Tail(services))

\* sum(s.estimated_hours for s in services if s.estimated_hours)
RECURSIVE SumHours(_)
SumHours(services) ==
    IF services = <<>> THEN 0
    ELSE (IF TruthyNum(services[1].estimated_hours) THEN services[1].estimated_hours[1] ELSE 0)
         + SumHours(Tail(services))

order_preview(selected_service) ==
    [order_id |-> "PREVIEW",
     services |-> <<selected_service>>,
     total_price |-> selected_service.price,
     estimated_total_hours |-> selected_service.estimated_hours,
     created_at |-> ""]

\* Mutant of final_order: the timestamp of the preview is kept.
final_order_no_timestamp(selected_services, order_id, now) ==
    [order_id |-> order_id,
     services |-> selected_services,
     total_price |-> SumPrice(selected_services),
     estimated_total_hours |-> Some(SumHours(selected_services)),
     created_at |-> ""]

final_order(selected_services, order_id, now) ==
    [order_id |-> order_id,
     services |-> selected_services,
     total_price |-> SumPrice(selected_services),
     estimated_total_hours |-> Some(SumHours(selected_services)),
     created_at |-> now]

\* "ORD-" and 8 hex digits of a fresh uuid4; the wall clock formatted to the second.
OrderIds == {"ORD-0A1B2C3D", "ORD-4E5F6A7B"}
Timestamps == {"2025-01-01 10:00:00", "2025-01-01 10:00:01"}

----------------------------------------------------------------------------
\* Model_1: the records of the catalog as prepare_data.py pickles them.

\* Number of records of Model_1's catalog.
DataSize == 3

fikse_data ==
    [i \in 1..DataSize |->
        [Service |-> CatalogRow(i).Service,
         Description |-> CatalogRow(i).Description,
         Price |-> 75 + 25 * i]]

\* The worker threads that serve requests at the same time, the session id
\* that the requests followed step by step are for, and a thread at rest.
Workers == {1, 2}
RaceIds == {"s1"}
IdleThread == [pc |-> "idle"]

----------------------------------------------------------------------------
\* Session state and the /agent handler.

VARIABLES
    session,        \* the SessionState of the session id in use
    request,        \* the user_input of the turn handled last (None before the first)
    replies,        \* what the generative model and the search service answered in it
    intent_data,    \* what detect_intent_and_context returned for it
    before,         \* the SessionState as the handler found it
    response,       \* the response returned for it
    dataset,        \* the search service's catalog with its index (None until loaded)
    searched,       \* the search request served last, with its reply
    fallback,       \* the last call of ai_classify_intent, with its result
    sessions,       \* the keyword agent's table of sessions (None: no session under the id)
    served,         \* the request the keyword agent served last, with its result
    orders,         \* the order summaries built so far, in order
    DATA,           \* Model_1: the records loaded from fikse_data.pkl
    responses,      \* Model_1: the searches whose responses are in the making, oldest first
    hybrid_sessions, \* the hybrid agent's dict of sessions: id -> object (0: no entry)
    heap,           \* the SessionState objects created so far
    threads,        \* the requests of the hybrid agent in progress, one per worker thread
    started,        \* the number of requests started
    base,           \* the session as two racing requests found it (None: no race yet)
    pending         \* the keyword agent's request that is inside get_session

\* The variables of the requests that are followed step by step.
laterVars == <<DATA, responses, hybrid_sessions, heap, threads, started, base, pending>>

vars == <<session, request, replies, intent_data, before, response, dataset, searched, fallback,
          sessions, served, orders, laterVars>>

\* Turns per session that are explored.
MaxTurns == 3

\* SessionState.__init__
SessionState ==
    [user_name |-> None,
     conversation_state |-> "greeting",
     conversation_history |-> <<>>,
     context |-> [k \in {} |-> None],
     suggested_services |-> <<>>,
     selected_services |-> <<>>,
     pending_order |-> None,
     current_query |-> None]

\* dict.update
update(d, other) ==
    [k \in (DOMAIN d) \cup (DOMAIN other) |-> IF k \in DOMAIN other THEN other[k] ELSE d[k]]

\* AIResponseGenerator.generate_response: the text comes from the generative
\* model, or is the canned apology when the call fails.
generate_response(intent) == [msg |-> "generated", prompt_for |-> intent]

\* The garment wording of the "Found n matching repair services" reply.
garment_info(context) ==
    LET fabric == context.fabric_type
        garment == context.garment_type
    IN  IF TruthyStr(fabric) /\ TruthyStr(garment) /\ Contains(garment[1], fabric[1])
        THEN garment
        ELSE IF TruthyStr(fabric) /\ TruthyStr(garment)
        THEN Some(fabric[1] \o <<" ">> \o garment[1])
        ELSE IF TruthyStr(garment) THEN garment
        ELSE IF TruthyStr(fabric) THEN fabric
        ELSE Some(<<"g", "a", "r", "m", "e", "n", "t">>)

\* Mutant of handle_repair_request: every service found is kept as a suggestion.
handle_repair_request_uncapped(s, text, context, services) ==
    LET s1 == [s EXCEPT !.suggested_services = services,
                        !.conversation_state =
                            IF services # <<>> THEN "selecting" ELSE "searching",
                        !.current_query = Some(text)]
    IN  [session |-> s1,
         response |->
             [intent |-> "repair_request",
              response |->
                  IF services # <<>>
                  THEN [msg |-> "found_services",
                        count |-> Len(s1.suggested_services),
                        garment_info |-> garment_info(context)]
                  ELSE [msg |-> "no_services", garment_info |-> context.garment_type],
              conversation_state |-> s1.conversation_state,
              show_services |-> Len(services) > 0,
              services |-> s1.suggested_services,
              context |-> context]]

\* intent == "repair_request"
handle_repair_request(s, text, context, services) ==
    LET s1 == [s EXCEPT !.suggested_services = Take(services, MaxSuggestions),
                        !.conversation_state =
                            IF services # <<>> THEN "selecting" ELSE "searching",
                        !.current_query = Some(text)]
    IN  [session |-> s1,
         response |->
             [intent |-> "repair_request",
              response |->
                  IF services # <<>>
                  THEN [msg |-> "found_services",
                        count |-> Len(s1.suggested_services),
                        garment_info |-> garment_info(context)]
                  ELSE [msg |-> "no_services", garment_info |-> context.garment_type],
              conversation_state |-> s1.conversation_state,
              show_services |-> Len(services) > 0,
              services |-> s1.suggested_services,
              context |-> context]]

\* Mutants of valid_selection: the last suggestion is refused; the lower bound is
\* not tested.
valid_selection_strict(selection_number, suggested_services) ==
    1 <= selection_number /\ selection_number < Len(suggested_services)

valid_selection_nolower(selection_number, suggested_services) ==
    selection_number <= Len(suggested_services)

\* 1 <= selection_number <= len(session.suggested_services)
valid_selection(selection_number, suggested_services) ==
    1 <= selection_number /\ selection_number <= Len(suggested_services)

\* The fallback of a failed selection.
selection_fallback(s, context) ==
    [session |-> s,
     response |->
         [intent |-> "unknown",
          response |-> generate_response("unknown"),
          conversation_state |-> s.conversation_state,
          show_services |-> Len(s.suggested_services) > 0,
          services |-> s.suggested_services,
          context |-> context]]

\* seq[k] of a Python list, k counted from 0, a negative k from the end
py_index(seq, k) == IF k >= 0 THEN seq[k + 1] ELSE seq[Len(seq) + k + 1]

\* Mutant of select_service: the preview is not stored in the session.
select_service_no_preview(s, selection_number, context) ==
    LET selected_service == py_index(s.suggested_services, selection_number - 1)
        preview == order_preview(selected_service)
    IN  [session |-> [s EXCEPT !.selected_services = <<selected_service>>,
                               !.conversation_state = "confirming"],
         response |->
             [intent |-> "service_selection",
              response |-> [msg |-> "selected",
                            service |-> selected_service.service,
                            price |-> selected_service.price,
                            description |-> selected_service.description],
              conversation_state |-> "confirming",
              show_services |-> FALSE,
              selected_services |-> <<selected_service>>,
              order_summary |-> preview,
              context |-> context]]

\* A selection that is accepted.
select_service(s, selection_number, context) ==
    LET selected_service == py_index(s.suggested_services, selection_number - 1)
        preview == order_preview(selected_service)
    IN  [session |-> [s EXCEPT !.selected_services = <<selected_service>>,
                               !.conversation_state = "confirming",
                               !.pending_order = Some(preview)],
         response |->
             [intent |-> "service_selection",
              response |-> [msg |-> "selected",
                            service |-> selected_service.service,
                            price |-> selected_service.price,
                            description |-> selected_service.description],
              conversation_state |-> "confirming",
              show_services |-> FALSE,
              selected_services |-> <<selected_service>>,
              order_summary |-> preview,
              context |-> context]]

\* intent == "service_selection"
handle_service_selection(s, text, context) ==
    IF /\ s.suggested_services # <<>>
       /\ int_ok(text)
       /\ valid_selection(int(text), s.suggested_services)
    THEN select_service(s, int(text), context)
    ELSE selection_fallback(s, context)

\* Mutant of general_response: the reply sends the conversation back to greeting.
general_response_resets(s, intent, context) ==
    [session |-> [s EXCEPT !.conversation_state = "greeting"],
     response |->
         [intent |-> intent,
          response |-> generate_response(intent),
          conversation_state |-> "greeting",
          show_services |-> FALSE,
          context |-> context]]

\* The general reply that ends the handler when no branch has returned.
general_response(s, intent, context) ==
    [session |-> s,
     response |->
         [intent |-> intent,
          response |-> generate_response(intent),
          conversation_state |-> s.conversation_state,
          show_services |-> FALSE,
          context |-> context]]

\* Mutant of handle_confirmation: the order is completed for one generated id
\* only, and left to be confirmed again for any other.
handle_confirmation_by_id(s, context, order_id, now) ==
    IF s.selected_services # <<>> /\ order_id = "ORD-0A1B2C3D"
    THEN LET order == final_order(s.selected_services, order_id, now)
         IN  [session |-> [s EXCEPT !.pending_order = Some(order),
                                    !.conversation_state = "completed"],
              response |->
                  [intent |-> "confirmation",
                   response |-> [msg |-> "order_created",
                                 order_id |-> order.order_id,
                                 service |-> s.selected_services[1].service,
                                 price |-> order.total_price,
                                 created_at |-> order.created_at],
                   conversation_state |-> "completed",
                   show_services |-> FALSE,
                   order_created |-> order,
                   context |-> context]]
    ELSE general_response(s, "confirmation", context)

\* intent == "confirmation" and session.conversation_state == "confirming"
handle_confirmation(s, context, order_id, now) ==
    IF s.selected_services # <<>>
    THEN LET order == final_order(s.selected_services, order_id, now)
         IN  [session |-> [s EXCEPT !.pending_order = Some(order),
                                    !.conversation_state = "completed"],
              response |->
                  [intent |-> "confirmation",
                   response |-> [msg |-> "order_created",
                                 order_id |-> order.order_id,
                                 service |-> s.selected_services[1].service,
                                 price |-> order.total_price,
                                 created_at |-> order.created_at],
                   conversation_state |-> "completed",
                   show_services |-> FALSE,
                   order_created |-> order,
                   context |-> context]]
    ELSE general_response(s, "confirmation", context)

\* Mutant of cancel_confirming: the selection is cleared and the phase is kept.
cancel_confirming_keeps_phase(s, context) ==
    [session |-> [s EXCEPT !.selected_services = <<>>,
                           !.pending_order = None],
     response |->
         [intent |-> "cancel",
          response |-> [msg |-> "order_cancelled"],
          conversation_state |-> "selecting",
          show_services |-> Len(s.suggested_services) > 0,
          services |-> s.suggested_services,
          context |-> context]]

\* Mutant of cancel_confirming: the suggestions are cleared with the selection.
cancel_confirming_clears_all(s, context) ==
    [session |-> [s EXCEPT !.conversation_state = "selecting",
                           !.suggested_services = <<>>,
                           !.selected_services = <<>>,
                           !.pending_order = None],
     response |->
         [intent |-> "cancel",
          response |-> [msg |-> "order_cancelled"],
          conversation_state |-> "selecting",
          show_services |-> FALSE,
          services |-> <<>>,
          context |-> context]]

\* intent == "cancel", session.conversation_state == "confirming"
cancel_confirming(s, context) ==
    [session |-> [s EXCEPT !.conversation_state = "selecting",
                           !.selected_services = <<>>,
                           !.pending_order = None],
     response |->
         [intent |-> "cancel",
          response |-> [msg |-> "order_cancelled"],
          conversation_state |-> "selecting",
          show_services |-> Len(s.suggested_services) > 0,
          services |-> s.suggested_services,
          context |-> context]]

\* Mutant of cancel_general: the reset forgets the conversation so far.
cancel_general_forgets(s, context) ==
    [session |-> [s EXCEPT !.conversation_state = "greeting",
                           !.conversation_history = <<>>],
     response |->
         [intent |-> "cancel",
          response |-> [msg |-> "no_problem"],
          conversation_state |-> "greeting",
          show_services |-> FALSE,
          context |-> context]]

\* intent == "cancel" in any other phase: "General reset"
cancel_general(s, context) ==
    [session |-> [s EXCEPT !.conversation_state = "greeting"],
     response |->
         [intent |-> "cancel",
          response |-> [msg |-> "no_problem"],
          conversation_state |-> "greeting",
          show_services |-> FALSE,
          context |-> context]]

handle_cancel(s, context) ==
    IF s.conversation_state = "confirming"
    THEN cancel_confirming(s, context)
    ELSE cancel_general(s, context)

\* intent == "greeting"
handle_greeting(s, context) ==
    [session |-> [s EXCEPT !.conversation_state = "greeting"],
     response |->
         [intent |-> "greeting",
          response |-> [msg |-> "hi"],
          conversation_state |-> "greeting",
          show_services |-> FALSE,
          context |-> context]]

\* The if/elif chain of hybrid_agent, on the session with context and history updated.
dispatch(s, intent, text, context, search, order_id, now) ==
    IF intent = "repair_request"
    THEN handle_repair_request(s, text, context, query_fikse_search(search))
    ELSE IF intent = "service_selection"
    THEN handle_service_selection(s, text, context)
    ELSE IF intent = "confirmation" /\ s.conversation_state = "confirming"
    THEN handle_confirmation(s, context, order_id, now)
    ELSE IF intent = "cancel"
    THEN handle_cancel(s, context)
    ELSE IF intent = "greeting"
    THEN handle_greeting(s, context)
    ELSE general_response(s, intent, context)

\* What the turn consults outside the process: the generative model only when no
\* keyword rule decides, the search service only on a repair request, the uuid
\* and the clock only when an order is finalized.
NoAI == AIFailure
NoSearch == SearchError
NoOrderId == "ORD-0A1B2C3D"
NoTimestamp == "2025-01-01 10:00:00"

AIOutcomes ==
    {AIFailure} \cup {AIReply(label) : label \in valid_intents} \cup {AIReply("cancel")}

\* User inputs of the conversation: selections in and out of range, a
\* confirmation, a cancel, a greeting, a repair request and a text that no
\* keyword rule decides.
AgentInputs ==
    {<<"0">>,
     <<"1">>,
     <<"3">>,
     <<"6">>,
     <<"Y", "e", "s">>,
     <<"N", "o">>,
     <<"h", "i">>,
     <<"s", "i", "l", "k", " ", "d", "r", "e", "s", "s", " ", "t", "e", "a", "r">>,
     <<"f", "i", "r", "s", "t">>}

\* detect_intent_and_context on the inputs of the conversation, computed once.
Detected ==
    [text \in AgentInputs |->
        [ai \in AIOutcomes |-> detect_intent_and_context(text, ai)]]

AsksAI == [text \in AgentInputs |-> NeedsAI(text)]

\* POST /agent
hybrid_agent(text, ai, search, order_id, now) ==
    LET data == Detected[text][ai]
        intent == data.intent
        context == data.context
        s1 == [session EXCEPT
                  !.context = update(session.context, context),
                  !.conversation_history =
                      Append(session.conversation_history,
                             [role |-> "user", content |-> text,
                              intent |-> intent, context |-> context])]
        out == dispatch(s1, intent, text, context, search, order_id, now)
    IN  /\ Len(session.conversation_history) < MaxTurns
        /\ session' = out.session
        /\ response' = Some(out.response)
        /\ request' = Some(text)
        /\ replies' = Some([ai |-> IF AsksAI[text] THEN Some(ai) ELSE None,
                             search |-> IF intent = "repair_request" THEN Some(search) ELSE None])
        /\ intent_data' = Some(data)
        /\ before' = Some(session)
        /\ UNCHANGED <<dataset, searched, fallback,
                    sessions, served, orders, laterVars>>

----------------------------------------------------------------------------
\* The turns that are explored.

Init ==
    /\ session = SessionState
    /\ request = None
    /\ replies = None
    /\ intent_data = None
    /\ before = None
    /\ response = None
    /\ dataset = None
    /\ searched = None
    /\ fallback = None
    /\ sessions = [session_id \in {"s1", "s2"} |-> None]
    /\ served = None
    /\ orders = <<>>
    /\ DATA = fikse_data
    /\ responses = <<>>
    /\ hybrid_sessions = [session_id \in RaceIds |-> 0]
    /\ heap = <<>>
    /\ threads = [t \in Workers |-> IdleThread]
    /\ started = 0
    /\ base = None
    /\ pending = None

Turn ==
    \E text \in AgentInputs :
      \E ai \in (IF AsksAI[text] THEN AIOutcomes ELSE {NoAI}) :
        LET intent == Detected[text][ai].intent
            finalizes == intent = "confirmation" /\ session.conversation_state = "confirming"
        IN  \E search \in (IF intent = "repair_request" THEN SearchOutcomes ELSE {NoSearch}) :
              \E order_id \in (IF finalizes THEN OrderIds ELSE {NoOrderId}) :
                \E now \in (IF finalizes THEN Timestamps ELSE {NoTimestamp}) :
                  hybrid_agent(text, ai, search, order_id, now)

Next == Turn

Spec == Init /\ [][Next]_vars

----------------------------------------------------------------------------
\* The hybrid agent's /agent handler step by step.  The handler is a plain
\* function, which the server runs in a pool of worker threads, and it takes
\* no lock: two requests can be in the handler at once, and the steps of one
\* (the reads and the writes of the session object) interleave with the
\* steps of the other.

\* Requests that are started in one behaviour.
MaxRequests == 4

\* The inputs of the requests: a repair request, a selection, a confirmation,
\* a cancel and a greeting, each decided by a keyword rule.
RaceTexts ==
    {<<"s", "i", "l", "k", " ", "d", "r", "e", "s", "s", " ", "t", "e", "a", "r">>,
     <<"1">>,
     <<"Y", "e", "s">>,
     <<"N", "o">>,
     <<"h", "i">>}

\* What the search service replies to them.
RaceSearchOutcomes == {SearchOk(ResultRows(1, 0))}

\* A request that has entered the handler.
Request(session_id, text) ==
    [pc |-> "get_session", session_id |-> session_id, text |-> text,
     ref |-> 0, order |-> None, result |-> None]

\* No request is in the handler.
Quiescent == \A t \in Workers : threads[t].pc \in {"idle", "done"}

\* The session stored under the id, None when there is no entry.
Stored(session_id) ==
    IF hybrid_sessions[session_id] = 0 THEN None
    ELSE Some(heap[hybrid_sessions[session_id]])

\* The response of the except clause that encloses the handler.
error_response(detail) ==
    [intent |-> "error",
     response |-> [msg |-> "apology"],
     conversation_state |-> "greeting",
     show_services |-> FALSE,
     error |-> detail]

\* One request arrives while no other is in the handler.
StartSolo ==
    /\ Quiescent
    /\ started < MaxRequests
    /\ \E session_id \in RaceIds :
         \E text \in RaceTexts :
           /\ threads' = [t \in Workers |->
                            IF t = 1 THEN Request(session_id, text) ELSE IdleThread]
           /\ started' = started + 1
           /\ UNCHANGED <<session, request, replies, intent_data, before, response,
                          dataset, searched, fallback, sessions, served, orders,
                          DATA, responses, hybrid_sessions, heap, base, pending>>

\* Two requests for the same session arrive together.
StartPair ==
    /\ Quiescent
    /\ started + 2 <= MaxRequests
    /\ \E session_id \in RaceIds :
         \E text1 \in RaceTexts :
           \E text2 \in RaceTexts :
             /\ threads' = [t \in Workers |->
                              Request(session_id, IF t = 1 THEN text1 ELSE text2)]
             /\ started' = started + 2
             /\ base' = Some([session |-> Stored(session_id),
                              texts |-> <<text1, text2>>])
             /\ UNCHANGED <<session, request, replies, intent_data, before, response,
                            dataset, searched, fallback, sessions, served, orders,
                            DATA, responses, hybrid_sessions, heap, pending>>

\* get_session: if session_id not in sessions
GetSession(t) ==
    /\ threads[t].pc = "get_session"
    /\ threads' = [threads EXCEPT ![t].pc =
                      IF hybrid_sessions[threads[t].session_id] = 0
                      THEN "create" ELSE "fetch"]
    /\ UNCHANGED <<session, request, replies, intent_data, before, response,
                   dataset, searched, fallback, sessions, served, orders,
                   DATA, responses, hybrid_sessions, heap, started, base, pending>>

\* get_session: sessions[session_id] = SessionState()
CreateSession(t) ==
    /\ threads[t].pc = "create"
    /\ heap' = Append(heap, SessionState)
    /\ hybrid_sessions' = [hybrid_sessions EXCEPT ![threads[t].session_id] = Len(heap) + 1]
    /\ threads' = [threads EXCEPT ![t].pc = "fetch"]
    /\ UNCHANGED <<session, request, replies, intent_data, before, response,
                   dataset, searched, fallback, sessions, served, orders,
                   DATA, responses, started, base, pending>>

\* get_session: return sessions[session_id]
FetchSession(t) ==
    /\ threads[t].pc = "fetch"
    /\ threads' = [threads EXCEPT ![t].ref = hybrid_sessions[threads[t].session_id],
                                  ![t].pc = "record"]
    /\ UNCHANGED <<session, request, replies, intent_data, before, response,
                   dataset, searched, fallback, sessions, served, orders,
                   DATA, responses, hybrid_sessions, heap, started, base, pending>>

\* The intent and the context of the request's input.
IntentData(t) == Detected[threads[t].text][NoAI]

\* session.context.update(context); session.conversation_history.append(...)
RecordTurn(t) ==
    /\ threads[t].pc = "record"
    /\ LET s == heap[threads[t].ref]
           data == IntentData(t)
       IN  heap' = [heap EXCEPT ![threads[t].ref] =
                       [s EXCEPT
                           !.context = update(s.context, data.context),
                           !.conversation_history =
                               Append(s.conversation_history,
                                      [role |-> "user", content |-> threads[t].text,
                                       intent |-> data.intent, context |-> data.context])]]
    /\ threads' = [threads EXCEPT ![t].pc = "handle"]
    /\ UNCHANGED <<session, request, replies, intent_data, before, response,
                   dataset, searched, fallback, sessions, served, orders,
                   DATA, responses, hybrid_sessions, started, base, pending>>

\* The tests of the if/elif chain.  A confirmation that finds phase confirming
\* and a selection goes on to build the order, a cancel that finds phase
\* confirming goes on to reset the selection; every other branch is followed
\* to its return.
Handle(t) ==
    /\ threads[t].pc = "handle"
    /\ LET s == heap[threads[t].ref]
           data == IntentData(t)
       IN  IF /\ data.intent = "confirmation"
              /\ s.conversation_state = "confirming"
              /\ s.selected_services # <<>>
           THEN /\ threads' = [threads EXCEPT ![t].pc = "confirm_build"]
                /\ heap' = heap
           ELSE IF data.intent = "cancel" /\ s.conversation_state = "confirming"
           THEN /\ threads' = [threads EXCEPT ![t].pc = "cancel_reset"]
                /\ heap' = heap
           ELSE \E search \in (IF data.intent = "repair_request"
                               THEN RaceSearchOutcomes ELSE {NoSearch}) :
                  LET out == dispatch(s, data.intent, threads[t].text, data.context,
                                      search, NoOrderId, NoTimestamp)
                  IN  /\ heap' = [heap EXCEPT ![threads[t].ref] = out.session]
                      /\ threads' = [threads EXCEPT ![t].result = Some(out.response),
                                                    ![t].pc = "done"]
    /\ UNCHANGED <<session, request, replies, intent_data, before, response,
                   dataset, searched, fallback, sessions, served, orders,
                   DATA, responses, hybrid_sessions, started, base, pending>>

\* final_order = OrderSummary(..., services=session.selected_services, ...)
ConfirmBuild(t) ==
    /\ threads[t].pc = "confirm_build"
    /\ \E order_id \in OrderIds :
         \E now \in Timestamps :
           threads' = [threads EXCEPT
                          ![t].order = Some(final_order(heap[threads[t].ref].selected_services,
                                                        order_id, now)),
                          ![t].pc = "confirm_store"]
    /\ UNCHANGED <<session, request, replies, intent_data, before, response,
                   dataset, searched, fallback, sessions, served, orders,
                   DATA, responses, hybrid_sessions, heap, started, base, pending>>

\* session.pending_order = final_order; session.conversation_state = "completed"
ConfirmStore(t) ==
    /\ threads[t].pc = "confirm_store"
    /\ heap' = [heap EXCEPT ![threads[t].ref] =
                   [@ EXCEPT !.pending_order = threads[t].order,
                             !.conversation_state = "completed"]]
    /\ threads' = [threads EXCEPT ![t].pc = "confirm_reply"]
    /\ UNCHANGED <<session, request, replies, intent_data, before, response,
                   dataset, searched, fallback, sessions, served, orders,
                   DATA, responses, hybrid_sessions, started, base, pending>>

\* The text of the confirmation names session.selected_services[0], which
\* raises IndexError on an empty list; the except clause answers then.
ConfirmReply(t) ==
    /\ threads[t].pc = "confirm_reply"
    /\ LET s == heap[threads[t].ref]
           order == threads[t].order[1]
       IN  threads' = [threads EXCEPT
                          ![t].pc = "done",
                          ![t].result =
                              IF s.selected_services = <<>>
                              THEN Some(error_response("list index out of range"))
                              ELSE Some([intent |-> "confirmation",
                                         response |-> [msg |-> "order_created",
                                                       order_id |-> order.order_id,
                                                       service |-> s.selected_services[1].service,
                                                       price |-> order.total_price,
                                                       created_at |-> order.created_at],
                                         conversation_state |-> "completed",
                                         show_services |-> FALSE,
                                         order_created |-> order,
                                         context |-> IntentData(t).context])]
    /\ UNCHANGED <<session, request, replies, intent_data, before, response,
                   dataset, searched, fallback, sessions, served, orders,
                   DATA, responses, hybrid_sessions, heap, started, base, pending>>

\* The cancel of an order that awaits confirmation.
CancelReset(t) ==
    /\ threads[t].pc = "cancel_reset"
    /\ LET out == cancel_confirming(heap[threads[t].ref], IntentData(t).context)
       IN  /\ heap' = [heap EXCEPT ![threads[t].ref] = out.session]
           /\ threads' = [threads EXCEPT ![t].result = Some(out.response),
                                         ![t].pc = "done"]
    /\ UNCHANGED <<session, request, replies, intent_data, before, response,
                   dataset, searched, fallback, sessions, served, orders,
                   DATA, responses, hybrid_sessions, started, base, pending>>

EnterHandler == \E t \in Workers : GetSession(t) \/ CreateSession(t) \/ FetchSession(t)

RunHandler == \E t \in Workers : RecordTurn(t) \/ Handle(t)

Confirm == \E t \in Workers : ConfirmBuild(t) \/ ConfirmStore(t) \/ ConfirmReply(t)

Cancel == \E t \in Workers : CancelReset(t)

RaceNext == StartSolo \/ StartPair \/ EnterHandler \/ RunHandler \/ Confirm \/ Cancel

RaceSpec == Init /\ [][RaceNext]_vars

----------------------------------------------------------------------------
\* Intent detection on its own, over texts of up to MaxWords words.

MaxWords == 2

Vocabulary ==
    {<<"7">>,
     <<"y", "e", "s">>,
     <<"O", "k">>,
     <<"n", "o">>,
     <<"b", "a", "c", "k">>,
     <<"h", "i">>,
     <<"s", "t", "a", "r", "t">>,
     <<"d", "r", "e", "s", "s">>,
     <<"s", "i", "l", "k">>,
     <<"t", "h", "e", "m">>,
     <<"s", "h", "i", "r", "t">>,
     <<"l", "o", "o", "k", "s">>,
     <<"g", "o", "o", "d">>,
     <<"w", "h", "a", "t">>}

RECURSIVE Join(_)
Join(words) ==
    IF words = <<>> THEN <<>>
    ELSE IF Len(words) = 1 THEN words[1]
    ELSE words[1] \o <<" ">> \o Join(Tail(words))

ClassifierInputs ==
    {Join(ws) : ws \in UNION {[1..n -> Vocabulary] : n \in 0..MaxWords}}

Classify ==
    /\ request = None
    /\ fallback = None
    /\ \E text \in ClassifierInputs :
         \E ai \in (IF NeedsAI(text) THEN AIOutcomes ELSE {NoAI}) :
           /\ request' = Some(text)
           /\ replies' = Some([ai |-> IF NeedsAI(text) THEN Some(ai) ELSE None, search |-> None])
           /\ intent_data' = Some(detect_intent_and_context(text, ai))
           /\ UNCHANGED <<session, before, response, dataset, searched, fallback,
                    sessions, served, orders, laterVars>>

\* ai_classify_intent on its own, with the context of any text and any reply
\* of the generative model, a label outside the intent set included.
FallbackReplies == AIOutcomes \cup {AIReply("order_status")}

ClassifyFallback ==
    /\ request = None
    /\ fallback = None
    /\ \E text \in ClassifierInputs :
         LET context == extract_context(text)
         IN  \E ai \in FallbackReplies :
               /\ fallback' = Some([text |-> text, context |-> context, ai |-> ai,
                                   result |-> ai_classify_intent(text, context, ai)])
               /\ UNCHANGED <<session, request, replies, intent_data, before, response,
                              dataset, searched,
                    sessions, served, orders, laterVars>>

IntentNext == Classify \/ ClassifyFallback

IntentSpec == Init /\ [][IntentNext]_vars

----------------------------------------------------------------------------
\* The search service on its own: it starts without its dataset, loads it at
\* startup, and serves a request before or after that.

startup_event ==
    /\ dataset = None
    /\ dataset' = load_and_index_dataset
    /\ UNCHANGED <<session, request, replies, intent_data, before, response,
                   searched, fallback,
                    sessions, served, orders, laterVars>>

Search ==
    /\ searched = None
    /\ \E q \in Queries :
         \E suggestion \in Suggestions(q) :
           \E retrieval \in Retrievals :
             \E failure \in StageFailures :
               /\ searched' = Some(search_api(dataset, q, suggestion, retrieval, failure))
               /\ UNCHANGED <<session, request, replies, intent_data, before, response,
                              dataset, fallback,
                    sessions, served, orders, laterVars>>

SearchNext == startup_event \/ Search

SearchSpec == Init /\ [][SearchNext]_vars

----------------------------------------------------------------------------
\* Model_1 (src/Model_1/app.py): the search over the pickled records.

\* The largest top_k that is asked for.
MaxTopK == 2

\* The queries that are served: the names of the services on record.
Model1Queries == {fikse_data[i].Service : i \in DOMAIN fikse_data}

\* index.search(model.encode([query]), top_k): the positions of the top_k
\* nearest records with their distances, nearest first.  The result is a
\* function of the query: the nearest record is the one whose service the
\* query names, the further ones follow in the order of the catalog.
index_search(query, top_k) ==
    LET nearest == CHOOSE i \in DOMAIN fikse_data : fikse_data[i].Service = query
    IN  [k \in 1..top_k |-> [i |-> ((nearest + k - 2) % DataSize) + 1, dist |-> k - 1]]

\* The records with the hits' scores written: item = DATA[i]; item["score"] = float(dist)
scored(data, hits) ==
    [i \in DOMAIN data |->
        IF \E k \in DOMAIN hits : hits[k].i = i
        THEN update(data[i], [score |-> hits[CHOOSE k \in DOMAIN hits : hits[k].i = i].dist])
        ELSE data[i]]

\* search(query, top_k): DATA as the loop leaves it, and the list it returns,
\* whose items are the records of DATA themselves (by position).
model1_search(data, hits) ==
    [DATA |-> scored(data, hits),
     results |-> [k \in DOMAIN hits |-> hits[k].i]]

\* GET /search: the handler runs search and returns {"query", "results"};
\* the response is made of the returned objects after the handler has ended.
search_endpoint ==
    /\ IF Len(responses) < Cardinality(Workers) THEN TRUE ELSE responses[1].payload # None
    /\ \E q \in Model1Queries :
         \E top_k \in 1..MaxTopK :
             LET hits == index_search(q, top_k)
                 out == model1_search(DATA, hits)
                 kept == IF Len(responses) < Cardinality(Workers)
                         THEN responses ELSE Tail(responses)
             IN  /\ DATA' = out.DATA
                 /\ responses' = Append(kept,
                                        [q |-> q, top_k |-> top_k,
                                         results |-> out.results,
                                         scores |-> [k \in DOMAIN hits |-> hits[k].dist],
                                         payload |-> None])
                 /\ UNCHANGED <<session, request, replies, intent_data, before, response,
                                dataset, searched, fallback, sessions, served, orders,
                                hybrid_sessions, heap, threads, started, base, pending>>

\* The response of a search is serialized from the objects it returned.
Serialize ==
    \E n \in DOMAIN responses :
       /\ responses[n].payload = None
       /\ responses' =
             [responses EXCEPT ![n].payload =
                 Some([query |-> responses[n].q,
                       results |-> [k \in DOMAIN responses[n].results |->
                                       DATA[responses[n].results[k]]]])]
       /\ UNCHANGED <<session, request, replies, intent_data, before, response,
                      dataset, searched, fallback, sessions, served, orders,
                      DATA, hybrid_sessions, heap, threads, started, base, pending>>

Model1Next == search_endpoint \/ Serialize

Model1Spec == Init /\ [][Model1Next]_vars

----------------------------------------------------------------------------
\* The keyword agent (Fikse_Agent/agent.py): detect_intent, its search
\* client, the selection parser and create_order_summary.

\* text.startswith(w)
StartsWith(text, w) == Len(w) <= Len(text) /\ SubSeq(text, 1, Len(w)) = w

\* any(w in text for w in words)
ContainsAny(text, words) == \E k \in DOMAIN words : Contains(text, words[k])

\* The alternatives of the greeting pattern, which re.match tries at the
\* start of the text.
agent_greeting_starts ==
    <<<<"h", "i">>, <<"h", "e", "l", "l", "o">>, <<"h", "e", "y">>, <<"g", "o", "o", "d", " ", "m", "o", "r", "n", "i", "n", "g">>, <<"g", "o", "o", "d", " ", "a", "f", "t", "e", "r", "n", "o", "o", "n">>,
      <<"g", "o", "o", "d", " ", "e", "v", "e", "n", "i", "n", "g">>, <<"s", "t", "a", "r", "t">>, <<"b", "e", "g", "i", "n">>>>

repair_keywords ==
    <<<<"f", "i", "x">>, <<"t", "e", "a", "r">>, <<"h", "o", "l", "e">>, <<"r", "e", "p", "a", "i", "r">>, <<"z", "i", "p", "p", "e", "r">>, <<"s", "e", "a", "m">>, <<"b", "r", "o", "k", "e", "n">>,
      <<"d", "a", "m", "a", "g", "e">>, <<"t", "o", "r", "n">>, <<"r", "i", "p">>, <<"w", "o", "r", "n">>, <<"s", "t", "a", "i", "n">>, <<"a", "l", "t", "e", "r">>, <<"a", "d", "j", "u", "s", "t">>,
      <<"s", "h", "o", "r", "t", "e", "n">>, <<"l", "e", "n", "g", "t", "h", "e", "n">>, <<"t", "a", "k", "e", " ", "i", "n">>, <<"t", "a", "k", "e", " ", "o", "u", "t">>, <<"b", "u", "t", "t", "o", "n">>, <<"h", "e", "m">>,
      <<"s", "l", "e", "e", "v", "e">>>>

\* The alternatives of the selection pattern without a digit, and those that
\* end in one digit.
selection_words == <<<<"s", "e", "l", "e", "c", "t">>, <<"c", "h", "o", "o", "s", "e">>, <<"p", "i", "c", "k">>, <<"a", "d", "d">>, <<"r", "e", "m", "o", "v", "e">>>>
selection_numbered == <<<<"s", "e", "r", "v", "i", "c", "e", " ">>, <<"o", "p", "t", "i", "o", "n", " ">>, <<"n", "u", "m", "b", "e", "r", " ">>>>

confirmation_phrases ==
    <<<<"y", "e", "s">>, <<"c", "o", "n", "f", "i", "r", "m">>, <<"l", "o", "o", "k", "s", " ", "g", "o", "o", "d">>, <<"t", "h", "a", "t", "'", "s", " ", "r", "i", "g", "h", "t">>, <<"c", "o", "r", "r", "e", "c", "t">>,
      <<"a", "p", "p", "r", "o", "v", "e">>, <<"c", "r", "e", "a", "t", "e", " ", "o", "r", "d", "e", "r">>, <<"p", "r", "o", "c", "e", "e", "d">>>>

manual_addition_phrases ==
    <<<<"a", "d", "d", " ", "m", "o", "r", "e">>, <<"a", "d", "d", " ", "o", "t", "h", "e", "r">>, <<"a", "d", "d", " ", "a", "d", "d", "i", "t", "i", "o", "n", "a", "l">>, <<"m", "a", "n", "u", "a", "l", "l", "y", " ", "a", "d", "d">>,
      <<"o", "t", "h", "e", "r", " ", "s", "e", "r", "v", "i", "c", "e", "s">>>>

decline_phrases ==
    <<<<"n", "o", " ", "m", "o", "r", "e">>, <<"t", "h", "a", "t", "'", "s", " ", "a", "l", "l">>, <<"n", "o", " ", "a", "d", "d", "i", "t", "i", "o", "n", "a", "l">>, <<"n", "o", " ", "o", "t", "h", "e", "r">>,
      <<"j", "u", "s", "t", " ", "t", "h", "e", "s", "e">>, <<"n", "o", " ", "t", "h", "a", "n", "k", "s">>>>

cancel_words == <<<<"c", "a", "n", "c", "e", "l">>, <<"n", "e", "v", "e", "r", "m", "i", "n", "d">>, <<"s", "t", "o", "p">>, <<"q", "u", "i", "t">>, <<"e", "x", "i", "t">>>>

\* re.search(r"(select|choose|pick|add|remove|service [0-9]|option [0-9]|number [0-9])", text)
SearchSelection(text) ==
    \/ ContainsAny(text, selection_words)
    \/ \E k \in DOMAIN selection_numbered :
         \E i \in 1..(Len(text) - Len(selection_numbered[k])) :
            /\ SubSeq(text, i, i + Len(selection_numbered[k]) - 1) = selection_numbered[k]
            /\ IsDigit(text[i + Len(selection_numbered[k])])

detect_intent(user_input) ==
    LET text == lower(user_input)
    IN  IF \E k \in DOMAIN agent_greeting_starts : StartsWith(text, agent_greeting_starts[k])
        THEN "greeting"
        ELSE IF Contains(text, <<"m", "y", " ", "n", "a", "m", "e", " ", "i", "s">>) \/ Contains(text, <<"i", " ", "a", "m">>)
        THEN "introduce_self"
        ELSE IF ContainsAny(text, repair_keywords)
        THEN "repair_request"
        ELSE IF SearchSelection(text) \/ MatchNumber(text)
        THEN "service_selection"
        ELSE IF ContainsAny(text, confirmation_phrases)
        THEN "confirmation"
        ELSE IF ContainsAny(text, manual_addition_phrases)
        THEN "manual_addition_request"
        ELSE IF ContainsAny(text, decline_phrases)
        THEN "decline_addition"
        ELSE IF ContainsAny(text, cancel_words)
        THEN "cancel"
        ELSE "unknown"

\* ServiceItem(...) of agent.py: hours that are missing or 0 become None
agent_service_item(i, result) ==
    [id |-> <<"service_", i>>,
     service |-> Get(result.Service, "Unknown Service"),
     description |-> Get(result.Description, ""),
     price |-> Get(result.Price, 0),
     garment_type |-> Get(result.Garment, ""),
     repairer_type |-> Get(result.Repairer, ""),
     estimated_hours |-> IF TruthyNum(result.Hours) THEN result.Hours ELSE None]

\* query_fikse_search of agent.py: every exception gives []
agent_query_fikse_search(outcome) ==
    IF outcome.kind = "ok"
    THEN LET results == Take(outcome.rows, MaxServices)
         IN  [i \in 1..Len(results) |-> agent_service_item(i, results[i])]
    ELSE <<>>

\* str.capitalize()
upper_char(c) ==
    IF IsLower(c) THEN UpperCase[CHOOSE i \in DOMAIN LowerCase : LowerCase[i] = c] ELSE c

capitalize(text) ==
    [i \in 1..Len(text) |-> IF i = 1 THEN upper_char(text[i]) ELSE lower_char(text[i])]

\* re.search(prefix + r"(\w+)", text): the word after the first occurrence of
\* the prefix that a word character follows, None when there is none.
WordAfter(text, prefix) ==
    LET starts == {i \in 1..(Len(text) - Len(prefix)) :
                      /\ SubSeq(text, i, i + Len(prefix) - 1) = prefix
                      /\ IsWordChar(text[i + Len(prefix)])}
    IN  IF starts = {} THEN None
        ELSE LET i == CHOOSE i \in starts : \A j \in starts : i <= j
                 from == i + Len(prefix)
                 to == CHOOSE e \in from..Len(text) :
                          /\ \A k \in from..e : IsWordChar(text[k])
                          /\ (e = Len(text) \/ ~IsWordChar(text[e + 1]))
             IN  Some(SubSeq(text, from, to))

name_patterns == <<<<"m", "y", " ", "n", "a", "m", "e", " ", "i", "s", " ">>, <<"i", " ", "a", "m", " ">>, <<"i", "'", "m", " ">>, <<"c", "a", "l", "l", " ", "m", "e", " ">>>>

RECURSIVE FirstName(_, _)
FirstName(text, k) ==
    IF k > Len(name_patterns) THEN <<"F", "r", "i", "e", "n", "d">>
    ELSE IF WordAfter(text, name_patterns[k]) # None
    THEN capitalize(WordAfter(text, name_patterns[k])[1])
    ELSE FirstName(text, k + 1)

extract_name(text) == FirstName(lower(text), 1)

\* re.findall(r'\b(\d+)\b', text): the runs of digits that stand between word
\* boundaries, from left to right
RECURSIVE NumbersFrom(_, _)
NumbersFrom(text, i) ==
    IF i > Len(text) THEN <<>>
    ELSE IF IsDigit(text[i]) /\ WordBoundary(text, i - 1)
    THEN LET e == CHOOSE e \in i..Len(text) :
                     /\ \A k \in i..e : IsDigit(text[k])
                     /\ (e = Len(text) \/ ~IsDigit(text[e + 1]))
         IN  IF WordBoundary(text, e)
             THEN <<SubSeq(text, i, e)>> \o NumbersFrom(text, e + 1)
             ELSE NumbersFrom(text, e + 1)
    ELSE NumbersFrom(text, i + 1)

RECURSIVE SelectNumbers(_, _)
SelectNumbers(numbers, available_services) ==
    IF numbers = <<>> THEN <<>>
    ELSE LET index == DecimalValue(Head(numbers)) - 1
         IN  (IF 0 <= index /\ index < Len(available_services)
              THEN <<available_services[index + 1]>> ELSE <<>>)
             \o SelectNumbers(Tail(numbers), available_services)

parse_service_selection(text, available_services) ==
    SelectNumbers(NumbersFrom(text, 1), available_services)

\* sum(...) over the hours that are not None
RECURSIVE SumDefinedHours(_)
SumDefinedHours(services) ==
    IF services = <<>> THEN 0
    ELSE (IF services[1].estimated_hours # None THEN services[1].estimated_hours[1] ELSE 0)
         + SumDefinedHours(Tail(services))

\* The total taken from the first service alone.
create_order_summary_first_price(services, order_id, now) ==
    [order_id |-> order_id,
     services |-> services,
     total_price |-> IF services = <<>> THEN 0 ELSE services[1].price,
     estimated_total_hours |-> None,
     created_at |-> now]

create_order_summary(services, order_id, now) ==
    LET has_hours(s) == s.estimated_hours # None
        hours_list == SelectSeq(services, has_hours)
    IN  [order_id |-> order_id,
         services |-> services,
         total_price |-> SumPrice(services),
         estimated_total_hours |->
             IF hours_list # <<>> THEN Some(SumDefinedHours(hours_list)) ELSE None,
         created_at |-> now]

----------------------------------------------------------------------------
\* The keyword agent's sessions and its three endpoints.

SessionIds == {"s1", "s2"}

\* SessionState() of agent.py
AgentSessionState ==
    [user_name |-> None,
     current_query |-> None,
     suggested_services |-> <<>>,
     selected_services |-> <<>>,
     conversation_state |-> "greeting",
     pending_order |-> None]

\* The dict that handle_intent returns, read as fikse_agent reads it: with
\* the defaults of its .get calls for the keys that are missing.
response_data(message, state, show_services) ==
    [response |-> message, state |-> state, show_services |-> show_services,
     services |-> <<>>, selected_services |-> <<>>,
     order_summary |-> None, order_created |-> None]

\* A selection that goes straight to the confirmation.
select_services_confirming(s, selected) ==
    IF selected = <<>>
    THEN [session |-> s,
          data |-> [response_data("select_from_options", "selecting", TRUE)
                        EXCEPT !.services = s.suggested_services]]
    ELSE [session |-> [s EXCEPT !.selected_services = selected,
                                !.conversation_state = "confirming"],
          data |-> [response_data("selected", "confirming", FALSE)
                        EXCEPT !.selected_services = selected]]

\* The selection branch once services are parsed from the text.
select_services(s, selected) ==
    IF selected = <<>>
    THEN [session |-> s,
          data |-> [response_data("select_from_options", "selecting", TRUE)
                        EXCEPT !.services = s.suggested_services]]
    ELSE [session |-> [s EXCEPT !.selected_services = selected,
                                !.conversation_state = "manual_addition"],
          data |-> [response_data("selected", "manual_addition", FALSE)
                        EXCEPT !.selected_services = selected]]

\* handle_intent on the session that get_session returned.  The session of
\* the result is the one stored under the id when the handler returns.
handle_intent(s, intent, user_input, search, order_id, now) ==
    IF intent = "greeting"
    THEN [session |-> [s EXCEPT !.conversation_state = "greeting"],
          data |-> response_data("greeting", "greeting", FALSE)]
    ELSE IF intent = "introduce_self"
    THEN [session |-> [s EXCEPT !.user_name = Some(extract_name(user_input))],
          data |-> response_data("nice_to_meet_you", "greeting", FALSE)]
    ELSE IF intent = "repair_request"
    THEN LET services == agent_query_fikse_search(search)
             s1 == [s EXCEPT !.current_query = Some(user_input),
                             !.conversation_state = "searching"]
         IN  IF services = <<>>
             THEN [session |-> s1,
                   data |-> response_data("no_services", "searching", FALSE)]
             ELSE [session |-> [s1 EXCEPT !.suggested_services = Take(services, MaxSuggestions),
                                          !.conversation_state = "selecting"],
                   data |-> [response_data("suggested", "selecting", TRUE)
                                 EXCEPT !.services = Take(services, MaxSuggestions)]]
    ELSE IF intent = "service_selection"
    THEN IF s.conversation_state # "selecting" \/ s.suggested_services = <<>>
         THEN [session |-> s,
               data |-> response_data("describe_first", "greeting", FALSE)]
         ELSE select_services(s, parse_service_selection(user_input, s.suggested_services))
    ELSE IF intent = "manual_addition_request"
    THEN [session |-> s,
          data |-> response_data("describe_addition", "adding_manual", FALSE)]
    ELSE IF intent = "decline_addition"
            \/ (intent = "unknown" /\ s.conversation_state = "manual_addition")
    THEN IF s.selected_services = <<>>
         THEN [session |-> s,
               data |-> response_data("nothing_selected", "greeting", FALSE)]
         ELSE LET order == create_order_summary(s.selected_services, order_id, now)
              IN  [session |-> [s EXCEPT !.pending_order = Some(order),
                                         !.conversation_state = "confirming"],
                   data |-> [response_data("order_summary", "confirming", FALSE)
                                 EXCEPT !.order_summary = Some(order)]]
    ELSE IF intent = "confirmation"
    THEN IF s.conversation_state # "confirming" \/ s.pending_order = None
         THEN [session |-> s,
               data |-> response_data("no_order_to_confirm", "greeting", FALSE)]
         ELSE [session |-> [s EXCEPT !.conversation_state = "completed"],
               data |-> [response_data("order_created", "completed", FALSE)
                             EXCEPT !.order_created = s.pending_order]]
    ELSE IF intent = "cancel"
    THEN [session |-> AgentSessionState,
          data |-> response_data("cancelled", "greeting", FALSE)]
    ELSE IF s.conversation_state = "selecting"
    THEN IF MatchNumber(strip(user_input))
            /\ parse_service_selection(user_input, s.suggested_services) # <<>>
         THEN select_services(s, parse_service_selection(user_input, s.suggested_services))
         ELSE select_services(s, <<>>)
    ELSE IF s.conversation_state = "confirming"
    THEN [session |-> s,
          data |-> response_data("answer_yes_or_no", "confirming", FALSE)]
    ELSE [session |-> s,
          data |-> response_data("not_understood", "greeting", FALSE)]

\* get_session: the stored session, or a new one stored under the id
get_session(table, session_id) ==
    IF table[session_id] = None
    THEN [table EXCEPT ![session_id] = Some(AgentSessionState)]
    ELSE table

\* What the endpoint reports of a stored session.
session_report(s) ==
    [user_name |-> s.user_name,
     conversation_state |-> s.conversation_state,
     suggested_services_count |-> Len(s.suggested_services),
     selected_services_count |-> Len(s.selected_services),
     has_pending_order |-> s.pending_order # None]

\* The session looked up with get_session, which stores a new one.
get_session_state_creating(table, session_id) ==
    [sessions |-> get_session(table, session_id),
     result |-> session_report(get_session(table, session_id)[session_id][1])]

\* get_session_state: the table as it leaves it, and what it returns
get_session_state(table, session_id) ==
    IF table[session_id] = None
    THEN [sessions |-> table, result |-> [error |-> "Session not found"]]
    ELSE [sessions |-> table, result |-> session_report(table[session_id][1])]

\* Every session removed instead of the one of the id.
reset_session_all(table, session_id) ==
    [sessions |-> [other \in DOMAIN table |-> None],
     result |-> [message |-> "Session reset"]]

\* The session replaced by a new one instead of removed.
reset_session_renewing(table, session_id) ==
    [sessions |-> [table EXCEPT ![session_id] = Some(AgentSessionState)],
     result |-> [message |-> "Session reset"]]

\* reset_session: the table as it leaves it, and what it returns
reset_session(table, session_id) ==
    [sessions |-> IF table[session_id] # None
                  THEN [table EXCEPT ![session_id] = None]
                  ELSE table,
     result |-> [message |-> "Session reset"]]

\* The texts that users of the keyword agent send.
AgentTexts ==
    {<<"H", "e", "l", "l", "o">>, <<"f", "i", "x", " ", "t", "e", "a", "r">>, <<"1">>, <<"N", "o">>, <<"n", "o", " ", "m", "o", "r", "e">>, <<"Y", "e", "s">>, <<"c", "a", "n", "c", "e", "l">>}

AgentIntent == [text \in AgentTexts |-> detect_intent(text)]

\* The replies of the search service to the keyword agent.
AgentSearchOutcomes ==
    {SearchError, SearchOk(ResultRows(MaxSuggestions + 1, 0))}

\* POST /agent
fikse_agent ==
    \E session_id \in SessionIds :
      \E text \in AgentTexts :
        LET intent == AgentIntent[text]
            table == get_session(sessions, session_id)
            s == table[session_id][1]
            orders_it ==
                /\ s.selected_services # <<>>
                /\ (intent = "decline_addition"
                      \/ (intent = "unknown" /\ s.conversation_state = "manual_addition"))
        IN  \E search \in (IF intent = "repair_request" THEN AgentSearchOutcomes ELSE {NoSearch}) :
              \E order_id \in (IF orders_it THEN OrderIds ELSE {NoOrderId}) :
                \E now \in (IF orders_it THEN Timestamps ELSE {NoTimestamp}) :
                  LET out == handle_intent(s, intent, text, search, order_id, now)
                  IN  /\ sessions' = [table EXCEPT ![session_id] = Some(out.session)]
                      /\ served' = Some([op |-> "agent",
                                         session_id |-> session_id,
                                         user_input |-> text,
                                         search |-> IF intent = "repair_request"
                                                    THEN Some(search) ELSE None,
                                         before |-> sessions,
                                         result |->
                                           [intent |-> intent,
                                            response |-> out.data.response,
                                            conversation_state |-> out.data.state,
                                            show_services |-> out.data.show_services,
                                            services |-> out.data.services,
                                            selected_services |-> out.data.selected_services,
                                            order_summary |-> out.data.order_summary,
                                            order_created |-> out.data.order_created,
                                            session_id |-> session_id]])
                      /\ UNCHANGED <<session, request, replies, intent_data, before, response,
                                     dataset, searched, fallback, orders, laterVars>>

\* GET /agent/session/{session_id}
InspectSession ==
    \E session_id \in SessionIds :
      LET out == get_session_state(sessions, session_id)
      IN  /\ sessions' = out.sessions
          /\ served' = Some([op |-> "get_session_state",
                             session_id |-> session_id,
                             user_input |-> <<>>,
                             search |-> None,
                             before |-> sessions,
                             result |-> out.result])
          /\ UNCHANGED <<session, request, replies, intent_data, before, response,
                         dataset, searched, fallback, orders, laterVars>>

\* DELETE /agent/session/{session_id}
ResetSession ==
    \E session_id \in SessionIds :
      LET out == reset_session(sessions, session_id)
      IN  /\ sessions' = out.sessions
          /\ served' = Some([op |-> "reset_session",
                             session_id |-> session_id,
                             user_input |-> <<>>,
                             search |-> None,
                             before |-> sessions,
                             result |-> out.result])
          /\ UNCHANGED <<session, request, replies, intent_data, before, response,
                         dataset, searched, fallback, orders, laterVars>>

AgentNext == fikse_agent \/ InspectSession \/ ResetSession

AgentSpec == Init /\ [][AgentNext]_vars

----------------------------------------------------------------------------
\* POST /agent of the keyword agent in a worker thread while DELETE
\* /agent/session/{session_id} is served by another: get_session in its two
\* steps, the test with the assignment and then the return, with no lock
\* between them.

\* HTTPException(status_code=500, detail=f"Agent error: {str(e)}") for the
\* KeyError of sessions[session_id]
agent_failure(session_id) ==
    [status_code |-> 500, detail |-> <<"Agent error: ", "'", session_id, "'">>]

\* fikse_agent up to the assignment in get_session
EnterAgent ==
    /\ pending = None
    /\ \E session_id \in RaceIds :
         \E text \in AgentTexts :
           /\ sessions' = get_session(sessions, session_id)
           /\ pending' = Some([session_id |-> session_id, text |-> text])
    /\ UNCHANGED <<session, request, replies, intent_data, before, response,
                   dataset, searched, fallback, served, orders,
                   DATA, responses, hybrid_sessions, heap, threads, started, base>>

\* fikse_agent from the return of get_session to its own return
LeaveAgent ==
    /\ pending # None
    /\ LET session_id == pending[1].session_id
           text == pending[1].text
           intent == AgentIntent[text]
       IN  IF sessions[session_id] = None
           THEN /\ sessions' = sessions
                /\ served' = Some([op |-> "agent",
                                   session_id |-> session_id,
                                   user_input |-> text,
                                   search |-> None,
                                   before |-> sessions,
                                   result |-> agent_failure(session_id)])
           ELSE LET s == sessions[session_id][1]
                    orders_it ==
                        /\ s.selected_services # <<>>
                        /\ (intent = "decline_addition"
                              \/ (intent = "unknown" /\ s.conversation_state = "manual_addition"))
                IN  \E search \in (IF intent = "repair_request" THEN AgentSearchOutcomes ELSE {NoSearch}) :
                      \E order_id \in (IF orders_it THEN OrderIds ELSE {NoOrderId}) :
                        \E now \in (IF orders_it THEN Timestamps ELSE {NoTimestamp}) :
                          LET out == handle_intent(s, intent, text, search, order_id, now)
                          IN  /\ sessions' = [sessions EXCEPT ![session_id] = Some(out.session)]
                              /\ served' = Some([op |-> "agent",
                                                 session_id |-> session_id,
                                                 user_input |-> text,
                                                 search |-> IF intent = "repair_request"
                                                            THEN Some(search) ELSE None,
                                                 before |-> sessions,
                                                 result |->
                                                   [intent |-> intent,
                                                    response |-> out.data.response,
                                                    conversation_state |-> out.data.state,
                                                    show_services |-> out.data.show_services,
                                                    services |-> out.data.services,
                                                    selected_services |-> out.data.selected_services,
                                                    order_summary |-> out.data.order_summary,
                                                    order_created |-> out.data.order_created,
                                                    session_id |-> session_id]])
    /\ pending' = None
    /\ UNCHANGED <<session, request, replies, intent_data, before, response,
                   dataset, searched, fallback, orders,
                   DATA, responses, hybrid_sessions, heap, threads, started, base>>

ResetRaceNext == EnterAgent \/ LeaveAgent \/ InspectSession \/ ResetSession

ResetRaceSpec == Init /\ [][ResetRaceNext]_vars

----------------------------------------------------------------------------
\* The order builders on their own: create_order_summary of the keyword
\* agent and the preview and the final order of the hybrid agent, applied to
\* lists of services.

\* Number of order summaries built in one behaviour, and the longest list of
\* services an order is built from.
MaxOrders == 1
MaxItems == 2

\* The services that the agents make of the rows of the search service.
OrderItems ==
    LET services == query_fikse_search(SearchOk(ResultRows(Len(SearchRows), 0)))
    IN  {services[i] : i \in DOMAIN services}

ServiceLists == UNION {[1..n -> OrderItems] : n \in 0..MaxItems}

\* The tool create_repair_order of the agent built on smolagents, on the
\* table of its sessions; services_json is None for a string that does not
\* parse to a list of services.
create_repair_order(table, session_id, services_json, order_id, now) ==
    IF services_json = None
    THEN [sessions |-> table, result |-> [error |-> "invalid services_json"]]
    ELSE LET services == services_json[1]
             order == [order_id |-> order_id,
                       services |-> services,
                       total_price |-> SumPrice(services),
                       estimated_total_hours |-> Some(SumHours(services)),
                       created_at |-> now]
             got == get_session(table, session_id)
         IN  [sessions |-> [got EXCEPT ![session_id] =
                               Some([got[session_id][1] EXCEPT
                                        !.pending_order = Some(order),
                                        !.conversation_state = "completed"])],
              result |-> order]

\* create_order_summary(services)
CreateOrderSummary ==
    /\ Len(orders) < MaxOrders
    /\ \E services \in ServiceLists :
         \E order_id \in OrderIds :
           \E now \in Timestamps :
             /\ orders' = Append(orders,
                                 [builder |-> "create_order_summary",
                                  services |-> services,
                                  order |-> Some(create_order_summary(services, order_id, now))])
             /\ UNCHANGED <<session, request, replies, intent_data, before, response,
                            dataset, searched, fallback, sessions, served, laterVars>>

\* The preview that the hybrid agent makes of the selected service.
PreviewOrder ==
    /\ Len(orders) < MaxOrders
    /\ \E selected_service \in OrderItems :
         /\ orders' = Append(orders,
                             [builder |-> "order_preview",
                              services |-> <<selected_service>>,
                              order |-> Some(order_preview(selected_service))])
         /\ UNCHANGED <<session, request, replies, intent_data, before, response,
                        dataset, searched, fallback, sessions, served, laterVars>>

\* The final order that the hybrid agent makes of a selection that is not
\* empty.
FinalizeOrder ==
    /\ Len(orders) < MaxOrders
    /\ \E selected_services \in ServiceLists \ {<<>>} :
         \E order_id \in OrderIds :
           \E now \in Timestamps :
             /\ orders' = Append(orders,
                                 [builder |-> "final_order",
                                  services |-> selected_services,
                                  order |-> Some(final_order(selected_services, order_id, now))])
             /\ UNCHANGED <<session, request, replies, intent_data, before, response,
                            dataset, searched, fallback, sessions, served, laterVars>>

\* create_repair_order(session_id, services_json)
CreateRepairOrder ==
    /\ Len(orders) < MaxOrders
    /\ \E session_id \in SessionIds :
         \E services_json \in {None} \cup {Some(services) : services \in ServiceLists} :
           \E order_id \in OrderIds :
             \E now \in Timestamps :
               LET done == create_repair_order(sessions, session_id, services_json,
                                               order_id, now)
               IN  /\ sessions' = done.sessions
                   /\ orders' = Append(orders,
                                       [builder |-> "create_repair_order",
                                        services |-> IF services_json = None
                                                     THEN <<>> ELSE services_json[1],
                                        order |-> IF services_json = None
                                                  THEN None ELSE Some(done.result)])
                   /\ UNCHANGED <<session, request, replies, intent_data, before,
                                  response, dataset, searched, fallback, served, laterVars>>

OrderNext == CreateOrderSummary \/ PreviewOrder \/ FinalizeOrder \/ CreateRepairOrder

OrderSpec == Init /\ [][OrderNext]_vars

----------------------------------------------------------------------------
\* Properties of the hybrid agent's conversation state machine.

Turned == request # None
Text == request[1]
Pre == before[1]
Intent == intent_data[1].intent
Reply == response[1]

\* The text consists of decimal digits only.
PurelyNumeric(text) == text # <<>> /\ \A i \in DOMAIN text : text[i] \in {Digits[d] : d \in DOMAIN Digits}

IsMember(x, seq) == \E i \in DOMAIN seq : seq[i] = x

\* C1: in phase selecting with k suggestions (1 <= k <= 5), a purely numeric
\* input n with 1 <= n <= k selects exactly suggestion n, stores a preview
\* order of that one service with its price as total, the placeholder id and
\* no timestamp, and moves the phase to confirming.
C1_Case ==
    /\ Turned
    /\ Pre.conversation_state = "selecting"
    /\ Len(Pre.suggested_services) \in 1..5
    /\ PurelyNumeric(Text)
    /\ DecimalValue(Text) \in 1..Len(Pre.suggested_services)

C1_ValidSelection ==
    C1_Case =>
        LET chosen == Pre.suggested_services[DecimalValue(Text)]
        IN  /\ session.selected_services = <<chosen>>
            /\ session.pending_order # None
            /\ session.pending_order[1].services = <<chosen>>
            /\ session.pending_order[1].total_price = chosen.price
            /\ session.pending_order[1].order_id = "PREVIEW"
            /\ session.pending_order[1].created_at = ""
            /\ session.conversation_state = "confirming"
            /\ Reply.conversation_state = "confirming"

\* The last of several suggestions is selected.
C1_Witness ==
    /\ C1_Case
    /\ Len(Pre.suggested_services) = 3
    /\ DecimalValue(Text) = 3
    /\ session.conversation_state = "confirming"

\* C2: a service_selection turn whose number is outside 1..len(suggestions),
\* or whose text is no number, changes neither the phase nor the suggested
\* services, the selected services or the pending order, and re-prompts.
C2_Case ==
    /\ Turned
    /\ Intent = "service_selection"
    /\ \/ ~int_ok(Text)
       \/ int(Text) < 1
       \/ int(Text) > Len(Pre.suggested_services)

C2_InvalidSelection ==
    C2_Case =>
        /\ session.conversation_state = Pre.conversation_state
        /\ session.suggested_services = Pre.suggested_services
        /\ session.selected_services = Pre.selected_services
        /\ session.pending_order = Pre.pending_order
        /\ Reply.intent = "unknown"
        /\ Reply.response.msg = "generated"
        /\ Reply.conversation_state = Pre.conversation_state

\* A number above the three suggestions on offer, in phase selecting.
C2_Witness ==
    /\ C2_Case
    /\ Pre.conversation_state = "selecting"
    /\ Len(Pre.suggested_services) = 3
    /\ int_ok(Text)
    /\ int(Text) > 3

\* C3: a confirmation turn in phase confirming replaces the pending order by
\* an order with a generated id and a timestamp whose services are the
\* selected services, moves the phase to completed and returns the order.
C3_Case ==
    /\ Turned
    /\ Intent = "confirmation"
    /\ Pre.conversation_state = "confirming"

C3_Finalize ==
    C3_Case =>
        /\ session.pending_order # None
        /\ session.pending_order[1].order_id \notin {"", "PREVIEW"}
        /\ session.pending_order[1].created_at # ""
        /\ session.pending_order[1].services = Pre.selected_services
        /\ session.selected_services = Pre.selected_services
        /\ session.conversation_state = "completed"
        /\ "order_created" \in DOMAIN Reply
        /\ Reply.order_created = session.pending_order[1]
        /\ Reply.conversation_state = "completed"

C3_Witness ==
    /\ C3_Case
    /\ Pre.pending_order # None
    /\ Pre.pending_order[1].order_id = "PREVIEW"
    /\ session.conversation_state = "completed"

\* C4: a cancel turn in phase confirming moves the phase to selecting, empties
\* the selected services and the pending order, and leaves the suggested
\* services as they were.
C4_Case ==
    /\ Turned
    /\ Intent = "cancel"
    /\ Pre.conversation_state = "confirming"

C4_CancelConfirming ==
    C4_Case =>
        /\ session.conversation_state = "selecting"
        /\ session.selected_services = <<>>
        /\ session.pending_order = None
        /\ session.suggested_services = Pre.suggested_services
        /\ Reply.services = Pre.suggested_services

C4_Witness ==
    /\ C4_Case
    /\ Pre.selected_services # <<>>
    /\ Pre.pending_order # None
    /\ Pre.suggested_services # <<>>
    /\ session.conversation_state = "selecting"

\* C5: a cancel turn in a phase other than confirming moves the phase to
\* greeting and leaves the suggested services, the selected services and the
\* pending order empty.
C5_CancelClearsSession ==
    (Turned /\ Intent = "cancel" /\ Pre.conversation_state # "confirming") =>
        /\ session.conversation_state = "greeting"
        /\ session.suggested_services = <<>>
        /\ session.selected_services = <<>>
        /\ session.pending_order = None

\* C6: on a repair_request turn with n >= 1 services found the suggestions are
\* the first min(5, n) of them in order and the phase is selecting; with none
\* found the phase is searching; there are never more than 5 suggestions.
C6_Case == Turned /\ Intent = "repair_request"

C6_RepairRequest ==
    /\ Len(session.suggested_services) <= 5
    /\ C6_Case =>
        LET reply == replies[1].search[1]
            found == IF reply.kind = "ok" THEN Take(reply.rows, 10) ELSE <<>>
            n == Len(found)
            m == IF n < 5 THEN n ELSE 5
        IN  /\ Len(session.suggested_services) = m
            /\ \A i \in 1..m :
                 /\ session.suggested_services[i].price = Get(found[i].Price, 0)
                 /\ session.suggested_services[i].service = Get(found[i].Service, "Unknown Service")
                 /\ session.suggested_services[i].estimated_hours = found[i].Hours
            /\ (n >= 1) => session.conversation_state = "selecting"
            /\ (n = 0) => session.conversation_state = "searching"

\* More services found than are suggested.
C6_Witness ==
    /\ C6_Case
    /\ replies[1].search[1].kind = "ok"
    /\ Len(replies[1].search[1].rows) > 5
    /\ Len(session.suggested_services) = 5
    /\ session.conversation_state = "selecting"

\* C7: the pending order is non-null only in the phases confirming and
\* completed.
C7_PendingOnlyWhenConfirming ==
    session.pending_order # None =>
        session.conversation_state \in {"confirming", "completed"}

\* C8: every selected service is one of the current suggested services.
C8_SelectedAmongSuggested ==
    \A i \in DOMAIN session.selected_services :
        IsMember(session.selected_services[i], session.suggested_services)

\* C9: a turn whose (phase, intent) pair is no row of the transition table
\* leaves the phase unchanged.
TableRow(phase, intent) ==
    \/ phase = "greeting" /\ intent = "repair_request"
    \/ phase = "selecting" /\ intent = "service_selection"
    \/ phase = "confirming" /\ intent = "confirmation"
    \/ intent = "cancel"

C9_UnhandledKeepsPhase ==
    (Turned /\ ~TableRow(Pre.conversation_state, Intent)) =>
        session.conversation_state = Pre.conversation_state

\* C9 as amended: the intents no branch handles (unknown in any phase,
\* confirmation outside confirming) leave the phase and the order state
\* unchanged and get the generated reply; a greeting intent is handled in
\* every phase and sets the phase to greeting.
C9_Unhandled ==
    /\ Turned
    /\ \/ Intent = "unknown"
       \/ Intent = "confirmation" /\ Pre.conversation_state # "confirming"

C9_UnhandledOrGreeting ==
    /\ C9_Unhandled =>
        /\ session.conversation_state = Pre.conversation_state
        /\ session.suggested_services = Pre.suggested_services
        /\ session.selected_services = Pre.selected_services
        /\ session.pending_order = Pre.pending_order
        /\ Reply.response.msg = "generated"
        /\ Reply.conversation_state = Pre.conversation_state
    /\ (Turned /\ Intent = "greeting") =>
        /\ session.conversation_state = "greeting"
        /\ Reply.conversation_state = "greeting"

\* An unknown intent while services are on offer.
C9_Witness ==
    /\ C9_Unhandled
    /\ Intent = "unknown"
    /\ Pre.conversation_state = "selecting"
    /\ session.conversation_state = "selecting"

----------------------------------------------------------------------------
\* Properties of intent detection.

\* The words of a text: its maximal runs of characters other than the space.
RECURSIVE Tokens(_)
Tokens(text) ==
    IF text = <<>> THEN <<>>
    ELSE LET spaces == {i \in DOMAIN text : text[i] = " "}
         IN  IF spaces = {} THEN <<text>>
             ELSE LET first == CHOOSE i \in spaces : \A j \in spaces : i <= j
                      rest == Tokens(SubSeq(text, first + 1, Len(text)))
                  IN  IF first = 1 THEN rest ELSE <<SubSeq(text, 1, first - 1)>> \o rest

HasToken(toks, terms) == \E i \in DOMAIN toks : \E k \in DOMAIN terms : toks[i] = terms[k]

RuleNumber(text) == Len(Tokens(text)) = 1 /\ PurelyNumeric(Tokens(text)[1])
RuleConfirmation(text) ==
    LET toks == Tokens(lower(text))
    IN  \/ HasToken(toks, confirmation_terms)
        \/ \E i \in 1..(Len(toks) - 1) :
               toks[i] = <<"l", "o", "o", "k", "s">> /\ toks[i + 1] = <<"g", "o", "o", "d">>
RuleCancel(text) == HasToken(Tokens(lower(text)), cancel_terms)
RuleGreeting(text) == HasToken(Tokens(lower(text)), greeting_terms)
RuleContext(context) ==
    context.garment_type # None \/ context.fabric_type # None \/ context.damage_type # None

\* C10: the intent is that of the first rule that matches, in the order
\* number, confirmation term, cancel term, greeting term, extracted context,
\* generative fallback.
C10_Precedence ==
    Turned =>
        LET intent == intent_data[1].intent
            context == intent_data[1].context
        IN  IF RuleNumber(Text) THEN intent = "service_selection"
            ELSE IF RuleConfirmation(Text) THEN intent = "confirmation"
            ELSE IF RuleCancel(Text) THEN intent = "cancel"
            ELSE IF RuleGreeting(Text) THEN intent = "greeting"
            ELSE IF RuleContext(context) THEN intent = "repair_request"
            ELSE /\ replies[1].ai # None
                 /\ intent \in valid_intents
                 /\ (replies[1].ai[1].ok /\ replies[1].ai[1].reply \in valid_intents)
                        => intent = replies[1].ai[1].reply

\* A cancel term followed by a confirmation term is a confirmation.
C10_Witness ==
    /\ Turned
    /\ Tokens(Text) = <<<<"n", "o">>, <<"y", "e", "s">>>>
    /\ intent_data[1].intent = "confirmation"

\* A greeting term with a garment keyword is a greeting.
C10_GreetingBeforeContext ==
    /\ Turned
    /\ RuleGreeting(Text)
    /\ intent_data[1].context.garment_type # None
    /\ intent_data[1].intent = "greeting"

----------------------------------------------------------------------------
\* Properties of the session context and of the generative fallback.

\* C11: once a garment, fabric or damage value is in the session context, it
\* is still there after a later turn that mentions none of them.
MentionsNothing(context) ==
    context.garment_type = None /\ context.fabric_type = None /\ context.damage_type = None

C11_ContextCumulative ==
    (/\ Turned
     /\ DOMAIN Pre.context # {}
     /\ MentionsNothing(intent_data[1].context)) =>
        \A k \in DOMAIN Pre.context :
            Pre.context[k] # None => session.context[k] = Pre.context[k]

\* The intents of the classifier (section 4.3 of the specification).
IntentSet ==
    {"greeting", "repair_request", "service_selection", "confirmation", "cancel",
     "manual_addition_request", "decline_addition", "introduce_self", "unknown"}

CanonicalLabels ==
    {"repair_request", "greeting", "service_selection", "confirmation", "unknown"}

\* C12: the fallback's reply becomes the intent when it is one of the five
\* canonical labels; when the call fails or answers anything else the intent
\* is repair_request if any context was extracted and unknown otherwise; the
\* intent is always one of the fixed intent set.
FallbackIntent(context, ai, intent) ==
    IF ai.ok /\ ai.reply \in CanonicalLabels
    THEN intent = ai.reply
    ELSE intent = (IF ~MentionsNothing(context) THEN "repair_request" ELSE "unknown")

C12_Fallback ==
    /\ fallback # None =>
        /\ FallbackIntent(fallback[1].context, fallback[1].ai, fallback[1].result.intent)
        /\ fallback[1].result.intent \in IntentSet
        /\ fallback[1].result.context = fallback[1].context
    /\ Turned =>
        /\ intent_data[1].intent \in IntentSet
        /\ replies[1].ai # None =>
             FallbackIntent(intent_data[1].context, replies[1].ai[1], intent_data[1].intent)

\* The call fails for a text that names a garment.
C12_Witness ==
    /\ fallback # None
    /\ ~fallback[1].ai.ok
    /\ fallback[1].context.garment_type # None
    /\ fallback[1].result.intent = "repair_request"

\* The model answers with a label that is not canonical.
C12_InvalidLabel ==
    /\ Turned
    /\ replies[1].ai # None
    /\ replies[1].ai[1].ok
    /\ replies[1].ai[1].reply \notin CanonicalLabels
    /\ intent_data[1].intent = "unknown"

----------------------------------------------------------------------------
\* The search service's responses.

\* The last search request was served from the loaded dataset.
Served == searched # None /\ searched[1].ready /\ ~searched[1].raised

Results == searched[1].reply.rows

BucketLabels == <<"exact_service", "partial_service", "description", "general", "semantic">>

BucketRank(label) == CHOOSE k \in DOMAIN BucketLabels : BucketLabels[k] = label

DetailPrefix ==
    [exact_service |-> "exact_service:", partial_service |-> "partial_service:",
     description |-> "description:", general |-> "general:"]

\* The term matches the row in the field that the label stands for.
TermMatches(r, label, term) ==
    CASE label = "exact_service" -> term = lower(r.Service)
      [] label = "partial_service" -> Contains(lower(r.Service), term)
      [] label = "description" -> Contains(lower(r.Description), term)
      [] label = "general" ->
            Contains(lower(r.Garment), term) \/ Contains(lower(r.Repairer), term)

\* C13: every search reply holds at most 10 results; each result carries one
\* of the five match types, a match detail that names a search term matching
\* the row in the field of that type (the detail is semantic_only exactly when
\* the type is semantic), and the list of search terms of the request.
C13_ResultShape ==
    searched # None =>
        /\ Len(Results) <= 10
        /\ \A k \in DOMAIN Results :
             LET r == Results[k]
             IN  /\ \E b \in DOMAIN BucketLabels : r.match_type = BucketLabels[b]
                 /\ (r.match_detail = <<"semantic_only">>) <=> (r.match_type = "semantic")
                 /\ r.match_type # "semantic" =>
                      /\ Len(r.match_detail) = 2
                      /\ r.match_detail[1] = DetailPrefix[r.match_type]
                      /\ \E t \in DOMAIN r.search_terms :
                           /\ r.match_detail[2] = r.search_terms[t]
                           /\ TermMatches(r, r.match_type, r.search_terms[t])
                 /\ r.search_terms = searched[1].search_terms
                 /\ r.search_terms = search_terms_of(searched[1].corrected_query)

\* A full response of 10 results cut from more entries, with keyword and
\* semantic results in it.
C13_Witness ==
    /\ Served
    /\ Len(searched[1].entries) > 10
    /\ Len(Results) = 10
    /\ \E k \in DOMAIN Results : Results[k].match_type = "semantic"
    /\ \E k \in DOMAIN Results : Results[k].match_type = "partial_service"

\* C14: in every search reply the results are in the order exact_service,
\* partial_service, description, general, semantic of their match types; so
\* every result that is not semantic comes before every semantic one.
C14_BucketOrder ==
    Served =>
        \A i, j \in DOMAIN Results :
            i < j => BucketRank(Results[i].match_type) <= BucketRank(Results[j].match_type)

\* A response with results of at least three match types, semantic among
\* them, from a retrieval that ranked a semantic row first.
C14_Witness ==
    /\ Served
    /\ \E k \in DOMAIN Results : Results[k].match_type = "semantic"
    /\ Cardinality({Results[k].match_type : k \in DOMAIN Results}) >= 3
    /\ row_entries(searched[1].samples[1], 0, searched[1].search_terms)[1].group = "semantic"

\* C15: in every search reply, results with the same match type are in
\* descending order of their similarity score, also when the list was cut to 10
\* and filtered by price.
C15_ScoreOrder ==
    Served =>
        \A i, j \in DOMAIN Results :
            (i < j /\ Results[i].match_type = Results[j].match_type)
                => Results[i].similarity_score >= Results[j].similarity_score

\* A price-filtered response, cut from more than 10 entries, with two results
\* of one match type and different scores that were retrieved in ascending order.
C15_Witness ==
    /\ Served
    /\ TruthyNum(searched[1].target_price)
    /\ Len(searched[1].entries) > 10
    /\ Len(Results) < Len(searched[1].assembled)
    /\ \E i, j \in DOMAIN Results :
         /\ i < j
         /\ Results[i].match_type = Results[j].match_type
         /\ Results[i].similarity_score > Results[j].similarity_score

Candidates == searched[1].samples

\* The entries that classification appended for candidate i.
EntriesOf(i) ==
    LET of_row(e) == e.row = Candidates[i]
    IN  SelectSeq(searched[1].entries, of_row)

\* C16: classification puts every retrieved candidate into exactly one of the
\* five lists, once, and no catalog row is in a search reply more than once.
C16_OneBucketEach ==
    Served =>
        /\ \A i \in DOMAIN Candidates : Len(EntriesOf(i)) = 1
        /\ \A i, j \in DOMAIN Results :
             (Results[i].Service = Results[j].Service
                /\ Results[i].Price = Results[j].Price) => i = j

\* The label of the highest-priority field of the row that the term matches,
\* "none" when it matches no field.
FieldLabel(row, term) ==
    IF \E b \in 1..4 : TermMatches(row, BucketLabels[b], term)
    THEN BucketLabels[CHOOSE b \in 1..4 :
                         /\ TermMatches(row, BucketLabels[b], term)
                         /\ \A c \in 1..(b - 1) : ~TermMatches(row, BucketLabels[c], term)]
    ELSE "none"

\* The list and the term that the first matching search term decides.
FirstTermBucket(row, terms) ==
    LET matching == {k \in DOMAIN terms : FieldLabel(row, terms[k]) # "none"}
    IN  IF matching = {} THEN <<"semantic">>
        ELSE LET first == CHOOSE k \in matching : \A l \in matching : k <= l
             IN  <<FieldLabel(row, terms[first]), terms[first]>>

\* C17: the list of a candidate is decided by the first search term that
\* matches any of its fields, by the highest-priority field that term matches;
\* later terms neither change nor add to it, and the candidate is semantic
\* exactly when no term matches any field.
C17_FirstTermWins ==
    Served =>
        \A i \in DOMAIN Candidates :
            LET decided == FirstTermBucket(Candidates[i], searched[1].search_terms)
            IN  \A k \in DOMAIN EntriesOf(i) :
                    /\ EntriesOf(i)[k].group = decided[1]
                    /\ decided[1] # "semantic" => EntriesOf(i)[k].match_detail[2] = decided[2]

\* The words of the text that are 2 to 5 digits.
PriceTokens(text) ==
    LET words == split(text)
        numeral(w) == Len(w) \in 2..5 /\ MatchNumber(w)
    IN  SelectSeq(words, numeral)

\* C18: when the corrected query has a word of 2 to 5 digits, the first such
\* word is the target price and every result of the reply has a price within
\* 50 of it, whatever the value of the word, zero included.
C18_PriceWithinTolerance ==
    (Served /\ PriceTokens(searched[1].corrected_query) # <<>>) =>
        LET t == DecimalValue(PriceTokens(searched[1].corrected_query)[1])
        IN  /\ searched[1].target_price = Some(t)
            /\ \A k \in DOMAIN Results :
                 /\ Results[k].Price # None
                 /\ Results[k].Price[1] - t <= 50
                 /\ t - Results[k].Price[1] <= 50

\* The ranking of all entries: the five lists one after the other, each in
\* descending order of score.
RECURSIVE Ranking(_, _)
Ranking(entries, b) ==
    IF b > Len(BucketLabels) THEN <<>>
    ELSE LET in_group(e) == e.group = BucketLabels[b]
         IN  sort_by_score(SelectSeq(entries, in_group)) \o Ranking(entries, b + 1)

Ranked == Ranking(searched[1].entries, 1)

PriceFits(price, t) == price # None /\ price[1] - t <= 50 /\ t - price[1] <= 50

\* The positions among the first 10 of the ranking whose price fits.
FittingTop == {k \in 1..Len(Ranked) : k <= 10 /\ PriceFits(Ranked[k].row.Price, searched[1].target_price[1])}

\* C19: when the price filter is applied, the reply is the first 10 entries of
\* the ranking with the entries whose price does not fit removed, in the same
\* order; entries ranked below the first 10 never fill the gaps.
C19_FilterAfterCut ==
    (Served /\ TruthyNum(searched[1].target_price)) =>
        /\ Len(Results) = Cardinality(FittingTop)
        /\ \A n \in DOMAIN Results :
             LET k == CHOOSE k \in FittingTop :
                         Cardinality({l \in FittingTop : l <= k}) = n
             IN  /\ Results[n].Service = Ranked[k].row.Service
                 /\ Results[n].Price = Ranked[k].row.Price
                 /\ Results[n].similarity_score = Ranked[k].score
                 /\ Results[n].match_type = Ranked[k].group

\* A filtered reply of fewer than 10 results although an entry ranked below
\* the first 10 has a fitting price.
C19_Witness ==
    /\ Served
    /\ TruthyNum(searched[1].target_price)
    /\ Len(Results) < 10
    /\ Len(Results) > 0
    /\ \E k \in DOMAIN Ranked :
         k > 10 /\ PriceFits(Ranked[k].row.Price, searched[1].target_price[1])

\* C20: a search request made while the dataset is not loaded is answered
\* with the not-ready error value, and an agent turn whose search got that
\* answer goes on as a search without results: no service is suggested, the
\* phase is searching and the user gets the no-services response.
C20_NotReady ==
    /\ \A q \in Queries :
         \A suggestion \in Suggestions(q) :
            search_api(None, q, suggestion, <<0, "ties">>, "none").reply = NotReady
    /\ (Turned /\ replies[1].search = Some(NotReady)) =>
        /\ Intent = "repair_request"
        /\ session.suggested_services = <<>>
        /\ session.conversation_state = "searching"
        /\ Reply.intent = "repair_request"
        /\ Reply.response.msg = "no_services"
        /\ Reply.services = <<>>
        /\ ~Reply.show_services
        /\ Reply.conversation_state = "searching"

\* A repair request in phase selecting, with suggestions from an earlier
\* search, whose search finds the service not ready.
C20_Witness ==
    /\ Turned
    /\ replies[1].search = Some(NotReady)
    /\ Pre.conversation_state = "selecting"
    /\ Pre.suggested_services # <<>>
    /\ session.conversation_state = "searching"

\* The search call of the turn failed: no connection, an error status, or a
\* payload that is not a list of well-formed rows.
SearchFailed ==
    /\ Turned
    /\ replies[1].search # None
    /\ replies[1].search[1].kind \in {"error", "http_error", "malformed", "not_ready"}

\* C21: when the search call of a repair request fails in any way, no service
\* is suggested, the turn answers with the fixed no-services response and the
\* session is left in phase searching.
C21_SearchFailure ==
    SearchFailed =>
        /\ Intent = "repair_request"
        /\ query_fikse_search(replies[1].search[1]) = <<>>
        /\ session.suggested_services = <<>>
        /\ session.conversation_state = "searching"
        /\ session.current_query = Some(Text)
        /\ Reply.intent = "repair_request"
        /\ Reply.response.msg = "no_services"
        /\ Reply.conversation_state = "searching"
        /\ ~Reply.show_services
        /\ Reply.services = <<>>

\* A payload whose third element is malformed, received in phase selecting.
C21_Witness ==
    /\ SearchFailed
    /\ replies[1].search[1].kind = "malformed"
    /\ replies[1].search[1].rows # <<>>
    /\ Pre.conversation_state = "selecting"
    /\ session.conversation_state = "searching"

\* C22: normalization never raises; when the spelling correction or the
\* lemmatization fails, the normalized query is the lower-cased original text
\* and the request is answered with a list of results.
C22_NormalizationNeverRaises ==
    (searched # None /\ searched[1].ready /\ searched[1].failure # "none") =>
        /\ ~searched[1].raised
        /\ searched[1].normalized_query = lower(searched[1].q)
        /\ searched[1].reply.kind = "ok"

----------------------------------------------------------------------------
\* Properties of the keyword agent (agent.py).

AgentTurned == served # None /\ served[1].op = "agent"

\* The session of the request served last as the handler found it (a new
\* one when none was stored) and as it left it.
AgentPre ==
    IF served[1].before[served[1].session_id] = None THEN AgentSessionState
    ELSE served[1].before[served[1].session_id][1]

AgentPost == sessions[served[1].session_id][1]

AgentResult == served[1].result

\* The services that the search reply of the turn yields.
AgentFound ==
    LET reply == served[1].search[1]
        rows == IF reply.kind = "ok" THEN Take(reply.rows, 10) ELSE <<>>
    IN  [i \in 1..Len(rows) |->
            [service |-> Get(rows[i].Service, "Unknown Service"),
             price |-> Get(rows[i].Price, 0)]]

\* C28: keyword agent: on a fresh session a greeting keeps phase greeting; a
\* repair request whose search finds services moves to selecting; in selecting
\* a valid number moves to manual_addition with that service selected; in
\* manual_addition a decline or an unrecognized text builds the order summary
\* of the selection and moves to confirming; in confirming a confirmation
\* moves to completed and returns as order_created the summary built on
\* entering confirming.
C28_OrderFlow ==
    AgentTurned =>
        /\ (served[1].before[served[1].session_id] = None /\ AgentResult.intent = "greeting") =>
              /\ AgentPost.conversation_state = "greeting"
              /\ AgentResult.conversation_state = "greeting"
        /\ (AgentResult.intent = "repair_request" /\ AgentFound # <<>>) =>
              /\ AgentPost.conversation_state = "selecting"
              /\ AgentResult.conversation_state = "selecting"
              /\ Len(AgentPost.suggested_services) = (IF Len(AgentFound) < 5 THEN Len(AgentFound) ELSE 5)
              /\ \A i \in DOMAIN AgentPost.suggested_services :
                    /\ AgentPost.suggested_services[i].service = AgentFound[i].service
                    /\ AgentPost.suggested_services[i].price = AgentFound[i].price
        /\ (AgentPre.conversation_state = "selecting"
              /\ PurelyNumeric(served[1].user_input)
              /\ DecimalValue(served[1].user_input) \in 1..Len(AgentPre.suggested_services)) =>
              /\ AgentPost.conversation_state = "manual_addition"
              /\ AgentResult.conversation_state = "manual_addition"
              /\ AgentPost.selected_services =
                    <<AgentPre.suggested_services[DecimalValue(served[1].user_input)]>>
        /\ (AgentPre.conversation_state = "manual_addition"
              /\ AgentResult.intent \in {"decline_addition", "unknown"}) =>
              /\ AgentPost.conversation_state = "confirming"
              /\ AgentResult.conversation_state = "confirming"
              /\ AgentPost.pending_order # None
              /\ AgentPost.pending_order[1].services = AgentPre.selected_services
              /\ AgentPost.selected_services = AgentPre.selected_services
              /\ AgentResult.order_summary = AgentPost.pending_order
        /\ (AgentPre.conversation_state = "confirming"
              /\ AgentResult.intent = "confirmation") =>
              /\ AgentPre.pending_order # None
              /\ AgentPost.conversation_state = "completed"
              /\ AgentResult.conversation_state = "completed"
              /\ AgentResult.order_created = AgentPre.pending_order
              /\ AgentPost.pending_order = AgentPre.pending_order

\* The confirmation that ends the flow: the order built from the selected
\* first suggestion is returned.
C28_Witness ==
    /\ AgentTurned
    /\ served[1].user_input = <<"Y", "e", "s">>
    /\ AgentPre.conversation_state = "confirming"
    /\ AgentPost.conversation_state = "completed"
    /\ AgentResult.order_created # None
    /\ AgentResult.order_created[1].services = <<AgentPost.suggested_services[1]>>

\* C29: inspecting a session changes no session and creates none: for an
\* unknown id the result is the not-found value and the table keeps its keys;
\* for a known id the result holds the stored phase and the numbers of
\* suggested and selected services.
C29_InspectionReadOnly ==
    (served # None /\ served[1].op = "get_session_state") =>
        /\ sessions = served[1].before
        /\ IF served[1].before[served[1].session_id] = None
           THEN served[1].result = [error |-> "Session not found"]
           ELSE /\ served[1].result.conversation_state = AgentPost.conversation_state
                /\ served[1].result.suggested_services_count = Len(AgentPost.suggested_services)
                /\ served[1].result.selected_services_count = Len(AgentPost.selected_services)
                /\ served[1].result.has_pending_order = (AgentPost.pending_order # None)

\* An unknown id inspected while the other id has a session with a selection.
C29_Witness ==
    /\ served # None
    /\ served[1].op = "get_session_state"
    /\ sessions[served[1].session_id] = None
    /\ \E other \in SessionIds :
         /\ sessions[other] # None
         /\ sessions[other][1].selected_services # <<>>

\* C30: a reset removes the session of the id and nothing else and succeeds
\* also when there is none; inspection then reports the id as not found; and
\* a turn for an id without a session works on a new session: phase greeting,
\* no suggestion, no selection, no pending order.
C30_Reset ==
    /\ (served # None /\ served[1].op = "reset_session") =>
          /\ sessions[served[1].session_id] = None
          /\ \A other \in SessionIds \ {served[1].session_id} :
                sessions[other] = served[1].before[other]
          /\ served[1].result = [message |-> "Session reset"]
          /\ get_session_state(sessions, served[1].session_id).result
                = [error |-> "Session not found"]
          /\ reset_session(sessions, served[1].session_id).sessions = sessions
    /\ (AgentTurned /\ served[1].before[served[1].session_id] = None) =>
          /\ AgentPost.selected_services = <<>>
          /\ AgentPost.pending_order = None
          /\ AgentPost.user_name = None
          /\ AgentResult.intent # "repair_request" => AgentPost = AgentSessionState
          /\ AgentResult.intent = "repair_request" =>
                /\ Len(AgentPost.suggested_services) <= Len(AgentFound)
                /\ AgentPost.conversation_state =
                      (IF AgentFound = <<>> THEN "searching" ELSE "selecting")

\* The reset of a session that had completed an order.
C30_Witness ==
    /\ served # None
    /\ served[1].op = "reset_session"
    /\ served[1].before[served[1].session_id] # None
    /\ served[1].before[served[1].session_id][1].conversation_state = "completed"
    /\ sessions[served[1].session_id] = None

\* C26: no two finalized orders have the same order id.
C26_UniqueOrderIds ==
    \A a, b \in SessionIds :
        (/\ a # b
         /\ sessions[a] # None /\ sessions[b] # None
         /\ sessions[a][1].conversation_state = "completed"
         /\ sessions[b][1].conversation_state = "completed")
            => sessions[a][1].pending_order[1].order_id # sessions[b][1].pending_order[1].order_id

----------------------------------------------------------------------------
\* Determinism of the hybrid agent's turn.

\* The turn that was taken, taken again from the same session with the same
\* input and intent, with the given reply of the search service and the
\* given generated id and clock.
Rerun(search, order_id, now) ==
    LET data == intent_data[1]
        s1 == [Pre EXCEPT
                  !.context = update(Pre.context, data.context),
                  !.conversation_history =
                      Append(Pre.conversation_history,
                             [role |-> "user", content |-> Text,
                              intent |-> data.intent, context |-> data.context])]
    IN  dispatch(s1, data.intent, Text, data.context, search, order_id, now)

\* The reply of the search service that the turn received, if it asked.
UsedSearch == IF replies[1].search = None THEN NoSearch ELSE replies[1].search[1]

\* An order, a session and a response without the generated id and the
\* timestamp of the order.
EraseOrder(order) == [order EXCEPT !.order_id = "", !.created_at = ""]

EraseSession(s) ==
    [s EXCEPT !.pending_order = IF @ = None THEN None ELSE Some(EraseOrder(@[1]))]

EraseReply(r) ==
    IF "order_created" \in DOMAIN r
    THEN [r EXCEPT !.order_created = EraseOrder(@),
                   !.response = [@ EXCEPT !.order_id = "", !.created_at = ""]]
    ELSE r

----------------------------------------------------------------------------
\* Properties of the order summaries.

\* The sum of f over the positions 1..n.
RECURSIVE SumTo(_, _)
SumTo(f, n) == IF n = 0 THEN 0 ELSE SumTo(f, n - 1) + f[n]

PricesOf(services) == [i \in DOMAIN services |-> services[i].price]

HoursOf(services) ==
    [i \in DOMAIN services |->
        IF services[i].estimated_hours = None THEN 0 ELSE services[i].estimated_hours[1]]

\* C23: in every order summary, preview or final, of either agent the total
\* price is the sum of the prices of the services that the summary lists.
C23_TotalPrice ==
    \A k \in DOMAIN orders :
        orders[k].order # None =>
        /\ orders[k].order[1].services = orders[k].services
        /\ orders[k].order[1].total_price
             = SumTo(PricesOf(orders[k].order[1].services), Len(orders[k].order[1].services))

\* A summary of two services with different prices.
C23_Witness ==
    \E k \in DOMAIN orders :
        /\ orders[k].builder = "create_order_summary"
        /\ Len(orders[k].services) = 2
        /\ orders[k].services[1].price > 0
        /\ orders[k].services[2].price > orders[k].services[1].price
        /\ orders[k].order[1].total_price > orders[k].services[2].price

\* C24: in every final order the total of the estimated hours is the sum of
\* the hours of its services that have hours, and it is absent (not 0) when
\* none of its services has hours.
C24_TotalHours ==
    \A k \in DOMAIN orders :
        orders[k].builder # "order_preview" /\ orders[k].order # None =>
            LET services == orders[k].order[1].services
            IN  orders[k].order[1].estimated_total_hours
                  = (IF \A i \in DOMAIN services : services[i].estimated_hours = None
                     THEN None
                     ELSE Some(SumTo(HoursOf(services), Len(services))))

\* C25: no order summary is made of an empty list of services.
C25_EmptySelectionFails ==
    \A k \in DOMAIN orders : orders[k].services = <<>> => orders[k].order = None

----------------------------------------------------------------------------
\* Further properties of the hybrid agent's session.

\* C33: the conversation history is an append-only log: every turn appends
\* exactly one entry (input, intent, extracted context) at the end and leaves
\* the earlier entries as they were.
C33_HistoryAppendOnly ==
    Turned =>
        /\ Len(session.conversation_history) = Len(Pre.conversation_history) + 1
        /\ SubSeq(session.conversation_history, 1, Len(Pre.conversation_history))
             = Pre.conversation_history
        /\ session.conversation_history[Len(session.conversation_history)]
             = [role |-> "user", content |-> Text, intent |-> Intent,
                context |-> intent_data[1].context]

\* A cancel outside confirming (the general reset) and a greeting, each after
\* earlier turns.
C33_Witness ==
    /\ Turned
    /\ Intent = "cancel"
    /\ Pre.conversation_state # "confirming"
    /\ Len(Pre.conversation_history) = 2
    /\ Pre.conversation_history[2].intent = "greeting"
    /\ Len(session.conversation_history) = 3

\* C35: a numeric input outside phase selecting changes neither the selected
\* services nor the pending order nor the phase, even when suggestions of an
\* earlier search are still stored.
C35_SelectionOnlyInSelecting ==
    (/\ Turned
     /\ PurelyNumeric(Text)
     /\ Pre.conversation_state # "selecting") =>
        /\ session.selected_services = Pre.selected_services
        /\ session.pending_order = Pre.pending_order
        /\ session.conversation_state = Pre.conversation_state

\* C36: in phase confirming exactly one service is selected and the pending
\* order is a preview (placeholder id, no timestamp) of that one service.
C36_ConfirmingHasPreview ==
    session.conversation_state = "confirming" =>
        /\ Len(session.selected_services) = 1
        /\ session.pending_order # None
        /\ session.pending_order[1].order_id = "PREVIEW"
        /\ session.pending_order[1].created_at = ""
        /\ session.pending_order[1].services = session.selected_services
        /\ session.pending_order[1].total_price = session.selected_services[1].price

\* Phase confirming kept over a turn that is neither a selection nor a
\* confirmation nor a cancel.
C36_Witness ==
    /\ Turned
    /\ Pre.conversation_state = "confirming"
    /\ session.conversation_state = "confirming"
    /\ Intent \notin {"service_selection", "confirmation", "cancel"}
    /\ Len(session.selected_services) = 1

----------------------------------------------------------------------------
\* Further properties of the keyword agent.

DeclaredPhases ==
    {"greeting", "searching", "selecting", "manual_addition", "confirming", "completed"}

C38_ResponsePhase ==
    AgentTurned =>
        /\ AgentResult.conversation_state = AgentPost.conversation_state
        /\ AgentResult.conversation_state \in DeclaredPhases

\* C39: a turn, an inspection or a reset for one session id changes no
\* session stored under another id.
C39_SessionsIsolated ==
    served # None =>
        \A other \in SessionIds \ {served[1].session_id} :
            sessions[other] = served[1].before[other]

\* A cancel turn that replaces the session of its id while another id holds
\* a session with a pending order.
C39_Witness ==
    /\ AgentTurned
    /\ AgentResult.intent = "cancel"
    /\ AgentPre.conversation_state = "confirming"
    /\ AgentPost = AgentSessionState
    /\ \E other \in SessionIds \ {served[1].session_id} :
         /\ sessions[other] # None
         /\ sessions[other][1].pending_order # None

----------------------------------------------------------------------------
\* Properties of the catalogs under search.

\* C32: serving searches never modifies the catalog: every record holds the
\* fields and values it had when it was loaded, and the records in the
\* response to a request carry what that request computed, whatever other
\* requests are served meanwhile.
C32_CatalogReadOnly ==
    /\ \A i \in DOMAIN DATA : DATA[i] = fikse_data[i]
    /\ dataset # None => dataset = load_and_index_dataset
    /\ \A n \in DOMAIN responses :
          responses[n].payload # None =>
              \A k \in DOMAIN responses[n].results :
                  responses[n].payload[1].results[k].score = responses[n].scores[k]

----------------------------------------------------------------------------
\* Properties of requests that are served at the same time.

\* The phase/selection invariants of a session do not hold: phase confirming
\* without exactly one selected service and its preview, or phase completed
\* without a finalized order of at least one service.
Broken(s) ==
    \/ /\ s.conversation_state = "confirming"
       /\ ~ (/\ Len(s.selected_services) = 1
             /\ s.pending_order # None
             /\ s.pending_order[1].order_id = "PREVIEW"
             /\ s.pending_order[1].services = s.selected_services)
    \/ /\ s.conversation_state = "completed"
       /\ ~ (/\ s.pending_order # None
             /\ s.pending_order[1].order_id # "PREVIEW"
             /\ s.pending_order[1].services # <<>>)

\* The session after a request with the given input has been served alone.
Alone(stored, text, search, order_id, now) ==
    LET s == IF stored = None THEN SessionState ELSE stored[1]
        data == Detected[text][NoAI]
        s1 == [s EXCEPT
                  !.context = update(s.context, data.context),
                  !.conversation_history =
                      Append(s.conversation_history,
                             [role |-> "user", content |-> text,
                              intent |-> data.intent, context |-> data.context])]
    IN  Some(dispatch(s1, data.intent, text, data.context, search, order_id, now).session)

\* The sessions that the two requests of the race leave when one is served
\* after the other, in either order.
SequentialOutcomes ==
    {Alone(Alone(base[1].session, base[1].texts[first], search1, order_id1, now1),
           base[1].texts[3 - first], search2, order_id2, now2) :
        <<first, search1, search2, order_id1, order_id2, now1, now2>> \in
            {1, 2} \X RaceSearchOutcomes \X RaceSearchOutcomes
                   \X OrderIds \X OrderIds \X Timestamps \X Timestamps}

\* The session of the requests.
RaceSession == Stored(CHOOSE session_id \in RaceIds : TRUE)

\* C31: without a lock, two requests for one session that run at the same
\* time can leave the session in a state that breaks the phase/selection
\* invariants and that neither order of the two requests produces.  What
\* holds in every state: requests served one at a time never break the
\* invariants, and neither do the two sequential orders of a racing pair
\* that starts from an unbroken session; a broken session implies a race.
C31_BrokenOnlyByRace ==
    /\ (Quiescent /\ RaceSession # None /\ Broken(RaceSession[1])) => base # None
    /\ (/\ base # None
        /\ \A t \in Workers : threads[t].pc = "get_session"
        /\ (base[1].session = None \/ ~Broken(base[1].session[1]))) =>
            \A outcome \in SequentialOutcomes : ~Broken(outcome[1])

\* A confirmation raced by a cancel: the session is left in phase completed
\* with a finalized order that lists no service, which neither order of the
\* two requests produces, and the confirmation got the error response.
C31_Witness ==
    /\ Quiescent
    /\ base # None
    /\ base[1].session # None
    /\ ~Broken(base[1].session[1])
    /\ base[1].session[1].conversation_state = "confirming"
    /\ Detected[base[1].texts[1]][NoAI].intent = "confirmation"
    /\ Detected[base[1].texts[2]][NoAI].intent = "cancel"
    /\ RaceSession[1].conversation_state = "completed"
    /\ RaceSession[1].pending_order # None
    /\ RaceSession[1].pending_order[1].services = <<>>
    /\ RaceSession[1].pending_order[1].order_id \in OrderIds
    /\ RaceSession[1].selected_services = <<>>
    /\ threads[1].result[1].intent = "error"
    /\ RaceSession \notin SequentialOutcomes

\* C40: at most one SessionState is installed per session id, and every
\* request works on the stored one: when no request is in the handler, the
\* stored session's history has one entry for each request served.
C40_OneSessionPerId ==
    /\ Len(heap) <= Cardinality(RaceIds)
    /\ (Quiescent /\ RaceSession # None) =>
          /\ Len(RaceSession[1].conversation_history) = started
          /\ \A t \in Workers :
                threads[t].pc = "done" =>
                    threads[t].ref = hybrid_sessions[threads[t].session_id]

----------------------------------------------------------------------------
\* C34: any failure while a turn is processed is converted into a normal
\* response with an apology and the error detail, never into a failed
\* request: every request that POST /agent of the keyword agent has served
\* was answered with a response body, not with an error status.
C34_NeverFailedRequest ==
    (served # None /\ served[1].op = "agent")
        => /\ "response" \in DOMAIN served[1].result
           /\ "status_code" \notin DOMAIN served[1].result
============================================================================
